---- MODULE Spec2Model ----
(***************************************************************************)
(* Alert store of sentinel-alert-app (internal/store, RedisStore) and the  *)
(* purge endpoint in front of it.                                          *)
(*                                                                         *)
(* The Redis keyspace is modelled key by key:                              *)
(*   alert:next_id          nextId   (0 = key absent, INCR creates it)     *)
(*   alert:<id>             recs     (JSON record with a TTL)              *)
(*   alerts:timeline        timeline (sorted set: member alert:<id>,       *)
(*                                    score = CreatedAt.Unix())            *)
(*   alerts:level:<lvl>     levelIdx (set of members, key TTL)             *)
(*   alerts:source:<src>    sourceIdx                                      *)
(*   channel alert_events   events   (every message ever published)        *)
(* Time is in whole seconds (the resolution of the timeline score).        *)
(* Strings are sequences of one-character strings, so that lower-casing    *)
(* and substring search are computed, not assumed.                         *)
(* A Redis command that returns an error has had no effect: a failed INCR  *)
(* leaves the counter, a failed Exec writes none of the pipeline, a failed *)
(* Publish delivers nothing.  The one exception is the outcome "lost" of   *)
(* add, used in SpecFail only: Exec returns an error (its reply did not    *)
(* arrive, or the request context was cancelled) after Redis has run the   *)
(* commands of the pipeline, which is not a MULTI/EXEC transaction.        *)
(***************************************************************************)
EXTENDS Integers, Sequences, FiniteSets, TLC

VARIABLES
  now,        \* wall clock / Redis clock, seconds
  nextId,     \* value of key alert:next_id (0: absent)
  recs,       \* id -> [alert, exp] for the existing keys alert:<id>
  timeline,   \* id -> score, the members of alerts:timeline
  levelIdx,   \* lower-cased level  -> [members, exp]
  sourceIdx,  \* lower-cased source -> [members, exp]
  events,     \* messages published on alert_events, oldest first
  calls,      \* history of AddAlert calls (observer)
  pc,         \* position of each concurrent AddAlert task
  purge,      \* position and scanned keys of the concurrent PurgeAllAlerts task
  lister,     \* position, keys and partial result of the concurrent GetAlerts task
  last,       \* the operation that made the last step: its request and result
  clean,      \* TRUE from the return of PurgeAllAlerts until the next add writes
  clock,      \* time.Now() of the server process, milliseconds
  rl,         \* the rateLimiter: rate, burst, refill and the bucket of each key
  idem,       \* the idempotencyStore: ttl and items, key -> expiry
  ret,        \* the last admission call or HTTP exchange: its input and outcome
  viewers,    \* the connections to /events and what each has received
  obs,        \* observer: per key, the allow calls and the sightings so far
  cfg,        \* the environment of the process: WEBHOOK_SECRET
  sweeper,    \* the goroutine of cleanupLoop, its context and its ticker
  mu,         \* the holder of rl.mu and of the mutex of the idempotency store
  goroutines, \* the concurrent calls of allow and seen, each with its position
  nonceCache  \* the package variable nonceCache of handlers: nonce -> expiry

vars == <<now, nextId, recs, timeline, levelIdx, sourceIdx, events, calls,
          pc, purge, lister, last, clean, clock, rl, idem, ret, viewers, obs,
          cfg, sweeper, mu, goroutines, nonceCache>>

storeVars == <<nextId, recs, timeline, levelIdx, sourceIdx>>

\* the state in front of the store: admission stages and event streams
admVars == <<clock, rl, idem, ret, viewers, obs, cfg, sweeper, mu, goroutines,
            nonceCache>>

\* everything the store operations work on
alertVars == <<now, nextId, recs, timeline, levelIdx, sourceIdx, events, calls,
               pc, purge, lister, last, clean>>

-----------------------------------------------------------------------------
(* Bounds of the model *)

MaxAdds == 2
MaxTicks == 1
NumTasks == 2
MaxConcAdds == 2
MaxPurgeRuns == 1
MaxListRuns == 1
MaxCalls == 5
MaxClock == 8
MaxRequests == 3
MaxViewers == 2
MaxLiveViewers == 1
MaxGoroutines == 3

(* Program constants *)

alertTTL == 2592000

-----------------------------------------------------------------------------
(* Strings *)

UpperLetters == <<"A","B","C","D","E","F","G","H","I","J","K","L","M",
                  "N","O","P","Q","R","S","T","U","V","W","X","Y","Z">>
LowerLetters == <<"a","b","c","d","e","f","g","h","i","j","k","l","m",
                  "n","o","p","q","r","s","t","u","v","w","x","y","z">>

ToLowerCh(c) ==
  IF \E i \in 1..26 : UpperLetters[i] = c
  THEN LowerLetters[CHOOSE i \in 1..26 : UpperLetters[i] = c]
  ELSE c

ToLower(s) == [i \in 1..Len(s) |-> ToLowerCh(s[i])]

ToUpperCh(c) ==
  IF \E i \in 1..26 : LowerLetters[i] = c
  THEN UpperLetters[CHOOSE i \in 1..26 : LowerLetters[i] = c]
  ELSE c

ToUpper(s) == [i \in 1..Len(s) |-> ToUpperCh(s[i])]

Contains(s, sub) ==
  \E i \in 0..(Len(s) - Len(sub)) : SubSeq(s, i + 1, i + Len(sub)) = sub

\* strconv / %d: the decimal digits of n, most significant first
RECURSIVE Itoa(_)
Itoa(n) == IF n < 10 THEN <<n>> ELSE Append(Itoa(n \div 10), n % 10)

\* bytewise lexicographic order of two digit strings
StrLess(a, b) ==
  \E k \in 1..Len(b) :
    /\ k <= Len(a) + 1
    /\ \A j \in 1..(k - 1) : a[j] = b[j]
    /\ (k = Len(a) + 1 \/ a[k] < b[k])

Range(f) == {f[i] : i \in DOMAIN f}

Restrict(f, S) == [x \in S |-> f[x]]

Empty == <<>>

-----------------------------------------------------------------------------
(* Keys and patterns *)

CounterKey == [ns |-> "alert", name |-> "next_id", id |-> 0, s |-> <<>>]
RecKey(id) == [ns |-> "alert", name |-> "", id |-> id, s |-> <<>>]
TimelineKey == [ns |-> "alerts", name |-> "timeline", id |-> 0, s |-> <<>>]
LevelKey(l) == [ns |-> "alerts", name |-> "level", id |-> 0, s |-> l]
SourceKey(s) == [ns |-> "alerts", name |-> "source", id |-> 0, s |-> s]

ExistingKeys ==
  (IF nextId # 0 THEN {CounterKey} ELSE {})
    \cup {RecKey(id) : id \in DOMAIN recs}
    \cup (IF DOMAIN timeline # {} THEN {TimelineKey} ELSE {})
    \cup {LevelKey(l) : l \in DOMAIN levelIdx}
    \cup {SourceKey(s) : s \in DOMAIN sourceIdx}

\* SCAN MATCH "alert:*": every key whose name starts with "alert:"
ScanAlertKeys == {k \in ExistingKeys : k.ns = "alert"}
\* SCAN MATCH "alerts:level:*"
ScanLevelKeys == {k \in ExistingKeys : k.ns = "alerts" /\ k.name = "level"}
\* a third scan that finds no key
ScanSourceKeysNone == {}

\* SCAN MATCH "alerts:source:*"
ScanSourceKeys == {k \in ExistingKeys : k.ns = "alerts" /\ k.name = "source"}

\* DEL keys...: the store after the keys of K are deleted
DelNextId(K) == IF CounterKey \in K THEN 0 ELSE nextId
DelRecs(K) == Restrict(recs, {id \in DOMAIN recs : RecKey(id) \notin K})
DelTimeline(K) == IF TimelineKey \in K THEN Empty ELSE timeline
DelLevelIdx(K) == Restrict(levelIdx, {l \in DOMAIN levelIdx : LevelKey(l) \notin K})
DelSourceIdx(K) == Restrict(sourceIdx, {s \in DOMAIN sourceIdx : SourceKey(s) \notin K})

-----------------------------------------------------------------------------
(* models.Alert and the writes of AddAlert *)

Alert(id, createdAt, source, level, title, message) ==
  [ID |-> id, CreatedAt |-> createdAt, Source |-> source, Level |-> level,
   Title |-> title, Message |-> message]

NoAlert == Alert(0, 0, <<>>, <<>>, <<>>, <<>>)

\* INCR alert:next_id
Incr == nextId + 1

\* pipe.Set(key, data, alertTTL)
PipeSet(a) ==
  [id \in DOMAIN recs \cup {a.ID} |->
     IF id = a.ID THEN [alert |-> a, exp |-> now + alertTTL] ELSE recs[id]]

\* a ZADD that replaces the timeline instead of adding to it
PipeZAddAlone(a) == [id \in {a.ID} |-> a.CreatedAt]

\* pipe.ZAdd("alerts:timeline", {Score: CreatedAt.Unix(), Member: key})
PipeZAdd(a) ==
  [id \in DOMAIN timeline \cup {a.ID} |->
     IF id = a.ID THEN a.CreatedAt ELSE timeline[id]]

\* SADD name key; EXPIRE name alertTTL
SAddExpire(idx, name, id) ==
  [n \in DOMAIN idx \cup {name} |->
     IF n = name
     THEN [members |-> (IF name \in DOMAIN idx THEN idx[name].members ELSE {})
                         \cup {id},
           exp |-> now + alertTTL]
     ELSE idx[n]]

\* a level index keyed by the level as given, not lowercased
PipeLevelAsGiven(a) ==
  IF a.Level # <<>> THEN SAddExpire(levelIdx, a.Level, a.ID) ELSE levelIdx

PipeLevel(a) ==
  IF a.Level # <<>> THEN SAddExpire(levelIdx, ToLower(a.Level), a.ID) ELSE levelIdx

PipeSource(a) ==
  IF a.Source # <<>> THEN SAddExpire(sourceIdx, ToLower(a.Source), a.ID)
  ELSE sourceIdx

-----------------------------------------------------------------------------
(* Reads *)

\* order of ZREVRANGE: higher score first; equal scores by the member string
\* "alert:<id>", lexicographically greater first
ZBefore(x, y) ==
  \/ timeline[x] > timeline[y]
  \/ timeline[x] = timeline[y] /\ StrLess(Itoa(y), Itoa(x))

RECURSIVE ZSorted(_)
ZSorted(S) ==
  IF S = {} THEN <<>>
  ELSE LET m == CHOOSE x \in S : \A y \in S \ {x} : ZBefore(x, y)
       IN <<m>> \o ZSorted(S \ {m})

\* ZREVRANGE alerts:timeline 0 -1
ZRevRange == ZSorted(DOMAIN timeline)

\* GET key for each key, skipping redis.Nil
FetchAll(keys) ==
  LET live == SelectSeq(keys, LAMBDA id : id \in DOMAIN recs)
  IN [i \in 1..Len(live) |-> recs[live[i]].alert]

GetAlertsResult == FetchAll(ZRevRange)

\* the timeline after the ZREM of every member whose record is gone
GetAlertsTimeline == Restrict(timeline, DOMAIN timeline \cap DOMAIN recs)

SMembers(idx, name) == IF name \in DOMAIN idx THEN idx[name].members ELSE {}

\* SMEMBERS / SINTER reply order is up to Redis; ascending id stands for it
RECURSIVE SetToSeq(_)
SetToSeq(S) ==
  IF S = {} THEN <<>>
  ELSE LET m == CHOOSE x \in S : \A y \in S : x <= y
       IN <<m>> \o SetToSeq(S \ {m})

SearchKeys(level, source) ==
  IF level # <<>> /\ source # <<>>
  THEN SetToSeq(SMembers(levelIdx, ToLower(level))
                  \cap SMembers(sourceIdx, ToLower(source)))
  ELSE IF level # <<>> THEN SetToSeq(SMembers(levelIdx, ToLower(level)))
  ELSE IF source # <<>> THEN SetToSeq(SMembers(sourceIdx, ToLower(source)))
  ELSE ZRevRange

SearchText(a) == ToLower(a.Title \o <<" ">> \o a.Message \o <<" ">> \o a.Source)

QueryMatches(query, a) ==
  LET q == ToLower(query) IN q = <<>> \/ Contains(SearchText(a), q)

SearchAlertsResult(query, level, source) ==
  SelectSeq(FetchAll(SearchKeys(level, source)),
            LAMBDA a : QueryMatches(query, a))

-----------------------------------------------------------------------------
(* Observer: the history of AddAlert calls *)

\* written: the pipeline of the call has run; purged: a purge that covers the
\* alert has been requested since; gone: Redis has since deleted the record, the
\* timeline entry or an index entry of the call's id (a DEL of a purge, or the TTL)
\* pubErr: the Publish of the call returned an error (which AddAlert only logs)
Call(id, a, st) ==
  [id |-> id, alert |-> a, status |-> st, written |-> st = "ok",
   purged |-> FALSE, gone |-> FALSE, pubErr |-> FALSE]

\* calls with every successful call whose source contains sub marked purged
\* (every successful call when sub is empty)
MarkPurged(sub) ==
  [c \in DOMAIN calls |->
     IF calls[c].status = "ok"
        /\ (sub = <<>> \/ Contains(calls[c].alert.Source, sub))
     THEN [calls[c] EXCEPT !.purged = TRUE, !.gone = TRUE]
     ELSE calls[c]]

\* calls with every call whose id is in ids marked gone
MarkGone(cs, ids) ==
  [c \in DOMAIN cs |->
     IF cs[c].written /\ cs[c].id \in ids THEN [cs[c] EXCEPT !.gone = TRUE]
     ELSE cs[c]]

TickCount == (now \div alertTTL) + (now % alertTTL)

-----------------------------------------------------------------------------
(* Operations, each as one step *)

\* a Publish that does not wait for Exec to succeed
EventsAfterAddEarly(outcome, c, a) ==
  IF outcome \in {"none", "exec"} THEN Append(events, [call |-> c, data |-> a])
  ELSE events

\* the channel after AddAlert: Publish runs only after Exec succeeded, and an
\* error of Publish is logged and otherwise ignored
EventsAfterAdd(outcome, c, a) ==
  IF outcome = "none" THEN Append(events, [call |-> c, data |-> a]) ELSE events

\* the outcomes of add with which AddAlert returns an error
AddFails(outcome) == outcome \in {"incr", "exec", "lost"}

\* RedisStore.AddAlert. outcome names the first Redis call that fails:
\* "incr", "exec", "publish", or "none"; "lost" is an Exec that returns an
\* error after Redis has run the pipeline.
AddAlert(source, level, title, message, outcome) ==
  /\ Len(calls) < MaxAdds
  /\ IF outcome = "incr"
     THEN /\ UNCHANGED <<storeVars, clean>>
          /\ events' = EventsAfterAdd(outcome, Len(calls) + 1, NoAlert)
          /\ calls' = Append(calls, Call(0, NoAlert, "error"))
     ELSE LET id == Incr
              a == Alert(id, now, source, level, title, message)
          IN /\ nextId' = id
             /\ IF outcome = "exec"
                THEN /\ UNCHANGED <<recs, timeline, levelIdx, sourceIdx, clean>>
                     /\ events' = EventsAfterAdd(outcome, Len(calls) + 1, NoAlert)
                     /\ calls' = Append(calls, Call(id, NoAlert, "error"))
                ELSE /\ recs' = PipeSet(a)
                     /\ timeline' = PipeZAdd(a)
                     /\ levelIdx' = PipeLevel(a)
                     /\ sourceIdx' = PipeSource(a)
                     /\ events' = EventsAfterAdd(outcome, Len(calls) + 1, a)
                     /\ calls' = Append(calls,
                                        IF outcome = "lost"
                                        THEN [Call(id, a, "error") EXCEPT
                                                !.written = TRUE]
                                        ELSE [Call(id, a, "ok") EXCEPT
                                                !.pubErr = (outcome = "publish")])
                     /\ clean' = FALSE
  /\ last' = [op |-> "add", call |-> Len(calls) + 1]
  /\ UNCHANGED <<now, pc, purge, lister>>

\* RedisStore.GetAlerts
GetAlerts ==
  /\ UNCHANGED admVars
  /\ last' = [op |-> "list", result |-> GetAlertsResult]
  /\ timeline' = GetAlertsTimeline
  /\ UNCHANGED <<now, nextId, recs, levelIdx, sourceIdx, events, calls, pc,
                 purge, lister, clean>>

\* RedisStore.SearchAlerts
SearchAlerts(query, level, source) ==
  /\ UNCHANGED admVars
  /\ last' = [op |-> "search", query |-> query, level |-> level,
              source |-> source,
              result |-> SearchAlertsResult(query, level, source)]
  /\ UNCHANGED <<now, storeVars, events, calls, pc, purge, lister, clean>>

\* RedisStore.PurgeAllAlerts: the writes to the store
PurgeAllAlerts ==
  /\ nextId' = DelNextId(ScanAlertKeys)
  /\ recs' = DelRecs(ScanAlertKeys)
  /\ timeline' = DelTimeline({TimelineKey})
  /\ levelIdx' = DelLevelIdx(ScanLevelKeys)
  /\ sourceIdx' = DelSourceIdx(ScanSourceKeys)
  /\ calls' = MarkPurged(<<>>)
  /\ clean' = TRUE

ChatTag(chatID) == <<"c", "h", "a", "t", ":">> \o chatID

SRemAll(idx, ids) ==
  LET left == [n \in DOMAIN idx |-> [idx[n] EXCEPT !.members = @ \ ids]]
  IN Restrict(left, {n \in DOMAIN left : left[n].members # {}})

\* RedisStore.PurgeAlertsByChat: the writes to the store
PurgeAlertsByChat(chatID) ==
  LET hit == {id \in DOMAIN timeline \cap DOMAIN recs :
                Contains(recs[id].alert.Source, ChatTag(chatID))}
  IN /\ recs' = Restrict(recs, DOMAIN recs \ hit)
     /\ timeline' = Restrict(timeline, DOMAIN timeline \ hit)
     /\ levelIdx' = SRemAll(levelIdx, hit)
     /\ sourceIdx' = SRemAll(sourceIdx, hit)
     /\ calls' = MarkPurged(ChatTag(chatID))
     /\ UNCHANGED <<nextId, clean>>

\* a decoder that keeps only the first character of chat_id
DecodeChatIDFirstChar(body) ==
  IF body.kind = "object" /\ body.has /\ body.type = "string"
  THEN IF body.val = <<>> THEN <<>> ELSE <<body.val[1]>>
  ELSE <<>>

\* json.NewDecoder(r.Body).Decode(&req), its error dropped: req.ChatID
DecodeChatID(body) ==
  IF body.kind = "object" /\ body.has /\ body.type = "string" THEN body.val
  ELSE <<>>

\* handlers.PurgeAlertsHandler
PurgeAlertsHandler(method, body) ==
  /\ UNCHANGED admVars
  /\ LET chatID == DecodeChatID(body)
         before == Range(GetAlertsResult)
     IN IF method # "POST"
        THEN /\ last' = [op |-> "purge", method |-> method, body |-> body,
                         status |-> 405, scope |-> "", before |-> before,
                         removed |-> {}]
             /\ UNCHANGED <<now, storeVars, events, calls, pc, purge, lister, clean>>
        ELSE /\ IF chatID # <<>> THEN PurgeAlertsByChat(chatID) ELSE PurgeAllAlerts
             /\ last' = [op |-> "purge", method |-> method, body |-> body,
                         status |-> 200,
                         scope |-> IF chatID # <<>> THEN "chat-specific" ELSE "all",
                         before |-> before,
                         removed |-> {a \in before : a.ID \notin DOMAIN recs'}]
             /\ UNCHANGED <<now, events, pc, purge, lister>>

\* the clock advances by d seconds; Redis drops the keys whose TTL has run out
Expire(d) ==
  /\ UNCHANGED admVars
  /\ now' = now + d
  /\ recs' = Restrict(recs, {id \in DOMAIN recs : recs[id].exp > now + d})
  /\ levelIdx' = Restrict(levelIdx, {l \in DOMAIN levelIdx : levelIdx[l].exp > now + d})
  /\ sourceIdx' = Restrict(sourceIdx,
                           {s \in DOMAIN sourceIdx : sourceIdx[s].exp > now + d})
  /\ calls' = MarkGone(calls, {id \in DOMAIN recs : recs[id].exp <= now + d})
  /\ last' = [op |-> "tick"]
  /\ UNCHANGED <<nextId, timeline, events, pc, purge, lister, clean>>

\* Expire, for the specifications that bound the number of ticks
Tick(d) ==
  /\ TickCount < MaxTicks
  /\ Expire(d)

-----------------------------------------------------------------------------
(* The same operations, one Redis round trip per step, for tasks that run   *)
(* concurrently (one goroutine per request)                                 *)

IdleTasks == [t \in 1..NumTasks |-> [at |-> "idle", call |-> 0]]
IdlePurge == [at |-> "idle", keys |-> {}, runs |-> 0]
IdleLister == [at |-> "idle", keys |-> <<>>, result |-> <<>>, runs |-> 0]

\* AddAlert, s.client.Incr
AddIncr(t, source, level, title, message) ==
  /\ UNCHANGED admVars
  /\ pc[t].at = "idle"
  /\ Len(calls) < MaxConcAdds
  /\ nextId' = Incr
  /\ calls' = Append(calls,
                     Call(Incr, Alert(Incr, 0, source, level, title, message),
                          "running"))
  /\ pc' = [pc EXCEPT ![t] = [at |-> "stamp", call |-> Len(calls) + 1]]
  /\ last' = [op |-> "step"]
  /\ UNCHANGED <<now, recs, timeline, levelIdx, sourceIdx, events, purge, lister,
                 clean>>

\* AddAlert, time.Now().UTC() and json.Marshal
AddStamp(t) ==
  /\ UNCHANGED admVars
  /\ pc[t].at = "stamp"
  /\ calls' = [calls EXCEPT ![pc[t].call].alert.CreatedAt = now]
  /\ pc' = [pc EXCEPT ![t].at = "exec"]
  /\ last' = [op |-> "step"]
  /\ UNCHANGED <<now, storeVars, events, purge, lister, clean>>

\* AddAlert, pipe.Exec
AddExec(t) ==
  /\ UNCHANGED admVars
  /\ pc[t].at = "exec"
  /\ LET a == calls[pc[t].call].alert
     IN /\ recs' = PipeSet(a)
        /\ timeline' = PipeZAdd(a)
        /\ levelIdx' = PipeLevel(a)
        /\ sourceIdx' = PipeSource(a)
  /\ calls' = [calls EXCEPT ![pc[t].call].written = TRUE]
  /\ pc' = [pc EXCEPT ![t].at = "publish"]
  /\ clean' = FALSE
  /\ last' = [op |-> "step"]
  /\ UNCHANGED <<now, nextId, events, purge, lister>>

\* AddAlert, s.client.Publish and the return
AddPublish(t) ==
  /\ UNCHANGED admVars
  /\ pc[t].at = "publish"
  /\ events' = Append(events,
                      [call |-> pc[t].call, data |-> calls[pc[t].call].alert])
  /\ calls' = [calls EXCEPT ![pc[t].call].status = "ok"]
  /\ pc' = [pc EXCEPT ![t] = [at |-> "idle", call |-> 0]]
  /\ last' = [op |-> "add", call |-> pc[t].call]
  /\ UNCHANGED <<now, storeVars, purge, lister, clean>>

IdsOfKeys(K) == {id \in DOMAIN recs : RecKey(id) \in K}
MembersOf(idx) == UNION {idx[n].members : n \in DOMAIN idx}

\* PurgeAllAlerts, the SCAN of "alert:*"
PurgeScan ==
  /\ UNCHANGED admVars
  /\ purge.at = "idle"
  /\ purge.runs < MaxPurgeRuns
  /\ purge' = [at |-> "del", keys |-> ScanAlertKeys, runs |-> purge.runs + 1]
  /\ last' = [op |-> "step"]
  /\ UNCHANGED <<now, storeVars, events, calls, pc, lister, clean>>

\* PurgeAllAlerts, s.client.Del(keys...)
PurgeDel ==
  /\ UNCHANGED admVars
  /\ purge.at = "del"
  /\ nextId' = DelNextId(purge.keys)
  /\ recs' = DelRecs(purge.keys)
  /\ calls' = MarkGone(calls, IdsOfKeys(purge.keys))
  /\ purge' = [purge EXCEPT !.at = "timeline", !.keys = {}]
  /\ last' = [op |-> "step"]
  /\ UNCHANGED <<now, timeline, levelIdx, sourceIdx, events, pc, lister, clean>>

\* PurgeAllAlerts, s.client.Del("alerts:timeline")
PurgeTimeline ==
  /\ UNCHANGED admVars
  /\ purge.at = "timeline"
  /\ timeline' = DelTimeline({TimelineKey})
  /\ calls' = MarkGone(calls, DOMAIN timeline)
  /\ purge' = [purge EXCEPT !.at = "scanLevel", !.keys = {}]
  /\ last' = [op |-> "step"]
  /\ UNCHANGED <<now, nextId, recs, levelIdx, sourceIdx, events, pc, lister, clean>>

\* PurgeAllAlerts, the SCAN of "alerts:level:*"
PurgeScanLevel ==
  /\ UNCHANGED admVars
  /\ purge.at = "scanLevel"
  /\ purge' = [purge EXCEPT !.at = "delLevel", !.keys = ScanLevelKeys]
  /\ last' = [op |-> "step"]
  /\ UNCHANGED <<now, storeVars, events, calls, pc, lister, clean>>

\* PurgeAllAlerts, s.client.Del(indexKeys...)
PurgeDelLevel ==
  /\ UNCHANGED admVars
  /\ purge.at = "delLevel"
  /\ levelIdx' = DelLevelIdx(purge.keys)
  /\ calls' = MarkGone(calls, MembersOf(levelIdx) \ MembersOf(DelLevelIdx(purge.keys)))
  /\ purge' = [purge EXCEPT !.at = "scanSource", !.keys = {}]
  /\ last' = [op |-> "step"]
  /\ UNCHANGED <<now, nextId, recs, timeline, sourceIdx, events, pc, lister, clean>>

\* PurgeAllAlerts, the SCAN of "alerts:source:*"
PurgeScanSource ==
  /\ UNCHANGED admVars
  /\ purge.at = "scanSource"
  /\ purge' = [purge EXCEPT !.at = "delSource", !.keys = ScanSourceKeys]
  /\ last' = [op |-> "step"]
  /\ UNCHANGED <<now, storeVars, events, calls, pc, lister, clean>>

\* PurgeAllAlerts, s.client.Del(sourceKeys...) and the return
PurgeDelSource ==
  /\ UNCHANGED admVars
  /\ purge.at = "delSource"
  /\ sourceIdx' = DelSourceIdx(purge.keys)
  /\ calls' = MarkGone(calls,
                       MembersOf(sourceIdx) \ MembersOf(DelSourceIdx(purge.keys)))
  /\ purge' = [purge EXCEPT !.at = "idle", !.keys = {}]
  /\ last' = [op |-> "purgeAll"]
  /\ UNCHANGED <<now, nextId, recs, timeline, levelIdx, events, pc, lister, clean>>

\* GetAlerts, the ZREVRANGE
ListRange ==
  /\ UNCHANGED admVars
  /\ lister.at = "idle"
  /\ lister.runs < MaxListRuns
  /\ lister' = [at |-> "get", keys |-> ZRevRange, result |-> <<>>,
                runs |-> lister.runs + 1]
  /\ last' = [op |-> "step"]
  /\ UNCHANGED <<now, storeVars, events, calls, pc, purge, clean>>

\* GetAlerts, the GET of the next key
ListGet ==
  /\ UNCHANGED admVars
  /\ lister.at = "get"
  /\ lister.keys # <<>>
  /\ LET key == Head(lister.keys)
     IN lister' = IF key \in DOMAIN recs
                  THEN [lister EXCEPT !.keys = Tail(lister.keys),
                                      !.result = Append(lister.result,
                                                        recs[key].alert)]
                  ELSE [lister EXCEPT !.at = "zrem"]
  /\ last' = [op |-> "step"]
  /\ UNCHANGED <<now, storeVars, events, calls, pc, purge, clean>>

\* GetAlerts, the ZREM of a key whose GET returned redis.Nil
ListZRem ==
  /\ UNCHANGED admVars
  /\ lister.at = "zrem"
  /\ timeline' = Restrict(timeline, DOMAIN timeline \ {Head(lister.keys)})
  /\ lister' = [lister EXCEPT !.at = "get", !.keys = Tail(lister.keys)]
  /\ last' = [op |-> "step"]
  /\ UNCHANGED <<now, nextId, recs, levelIdx, sourceIdx, events, calls, pc, purge,
                 clean>>

\* GetAlerts, the return
ListReturn ==
  /\ UNCHANGED admVars
  /\ lister.at = "get"
  /\ lister.keys = <<>>
  /\ last' = [op |-> "list", result |-> lister.result]
  /\ lister' = [lister EXCEPT !.at = "idle", !.result = <<>>]
  /\ UNCHANGED <<now, storeVars, events, calls, pc, purge, clean>>

-----------------------------------------------------------------------------
(* Inputs *)

SrcChat42 == <<"b","o","t",":","a",":","c","h","a","t",":","4","2">>
SrcChat7 == <<"b","o","t",":","b",":","c","h","a","t",":","7">>
SrcChat4 == <<"b","o","t",":","a",":","c","h","a","t",":","4">>
SrcX == <<"X">>
LvlWarn == <<"w","a","r","n">>
LvlWARN == <<"W","A","R","N">>
LvlInfo == <<"i","n","f","o">>
TitleCPU == <<"C","P","U">>
TitleDisk == <<"d","i","s","k">>
MsgHigh == <<"h","i","g","h">>

AllOutcomes == {"none", "incr", "exec", "publish"}

\* request bodies of the purge endpoint
NoBody == [kind |-> "empty", has |-> FALSE, type |-> "null", val |-> <<>>]
BadBody == [kind |-> "malformed", has |-> TRUE, type |-> "string", val |-> <<"4","2">>]
ObjBody(has, type, val) == [kind |-> "object", has |-> has, type |-> type, val |-> val]
EmptyObj == ObjBody(FALSE, "null", <<>>)

-----------------------------------------------------------------------------
(* Rate limiter (main.go). The clock counts ticks of the server's clock. A *)
(* bucket's token count is a float64 in the code; here it is kept exactly, *)
(* multiplied by the refill period: one token is the value rl.refill.      *)

newRateLimiter(rate, burst, refill) ==
  [rate |-> rate, burst |-> burst, refill |-> refill, tokens |-> Empty]

\* a minFloat that returns its second argument
minFloatSecond(a, b) == b

minFloat(a, b) == IF a < b THEN a ELSE b

\* one token, and the capacity rl.burst, in the unit of bucket.tokens
OneToken == rl.refill
Capacity == rl.burst * rl.refill

\* bucket.tokens + rl.rate*elapsed.Seconds()/rl.refill.Seconds(), clamped
Refilled(bucket, at) ==
  minFloat(Capacity, bucket.tokens + rl.rate * (at - bucket.last))

\* rl.tokens after allow(key) at the time at
AllowTokens(key, at) ==
  IF key \notin DOMAIN rl.tokens
  THEN [k \in DOMAIN rl.tokens \cup {key} |->
          IF k = key THEN [tokens |-> Capacity - OneToken, last |-> at]
          ELSE rl.tokens[k]]
  ELSE LET b == rl.tokens[key]
           r == Refilled(b, at)
       IN IF r < OneToken
          THEN [rl.tokens EXCEPT ![key] = [tokens |-> r, last |-> b.last]]
          ELSE [rl.tokens EXCEPT ![key] = [tokens |-> r - OneToken, last |-> at]]

\* the value allow(key) returns at the time at
AllowResult(key, at) ==
  \/ key \notin DOMAIN rl.tokens
  \/ Refilled(rl.tokens[key], at) >= OneToken

\* observer: what is known of the allow calls of key after one more, made at
\* the time at with the result ok
NoAllows == [calls |-> 0, first |-> 0, admits |-> 0, lastAdmit |-> 0]

AllowsOf(key) == IF key \in DOMAIN obs.allow THEN obs.allow[key] ELSE NoAllows

ObsAllow(key, at, ok) ==
  LET o == AllowsOf(key)
      n == [calls |-> o.calls + 1,
            first |-> IF o.calls = 0 THEN at ELSE o.first,
            admits |-> IF ok THEN o.admits + 1 ELSE o.admits,
            lastAdmit |-> IF ok THEN at ELSE o.lastAdmit]
  IN [obs EXCEPT !.allow = [k \in DOMAIN obs.allow \cup {key} |->
                              IF k = key THEN n ELSE obs.allow[k]],
                 !.n = @ + 1]

\* what rl.allow(key) does to the limiter and the observer
AllowStep(key) ==
  /\ rl' = [rl EXCEPT !.tokens = AllowTokens(key, clock)]
  /\ obs' = ObsAllow(key, clock, AllowResult(key, clock))

\* rateLimiter.allow
allow(key) ==
  /\ obs.n < MaxCalls
  /\ AllowStep(key)
  /\ ret' = [op |-> "allow", key |-> key, at |-> clock,
             ok |-> AllowResult(key, clock),
             known |-> key \in DOMAIN rl.tokens,
             before |-> IF key \in DOMAIN rl.tokens THEN rl.tokens[key]
                        ELSE [tokens |-> 0, last |-> 0],
             after |-> AllowTokens(key, clock)[key],
             was |-> AllowsOf(key)]
  /\ UNCHANGED <<alertVars, clock, idem, viewers, cfg, sweeper, mu, goroutines,
            nonceCache>>

\* time passes in the server process
Advance(d) ==
  /\ clock + d <= MaxClock
  /\ clock' = clock + d
  /\ UNCHANGED <<alertVars, rl, idem, ret, viewers, obs, cfg, sweeper, mu, goroutines,
            nonceCache>>

-----------------------------------------------------------------------------
(* Idempotency store (main.go) *)

newIdempotencyStore(ttl) == [ttl |-> ttl, items |-> Empty]

\* a duplicate test that still holds at the instant of expiry
SeenResultAtExpiry(key, at) ==
  /\ key # ""
  /\ key \in DOMAIN idem.items
  /\ idem.items[key] >= at

\* exp, ok := s.items[key]; ok && exp.After(now)
SeenResult(key, at) ==
  /\ key # ""
  /\ key \in DOMAIN idem.items
  /\ idem.items[key] > at

\* a table that records the empty key like any other
SeenItemsAnyKey(key, at) ==
  IF SeenResult(key, at) THEN idem.items
  ELSE [k \in DOMAIN idem.items \cup {key} |->
          IF k = key THEN at + idem.ttl ELSE idem.items[k]]

\* a table whose expiry is pushed back by every sighting
SeenItemsSliding(key, at) ==
  IF key = "" THEN idem.items
  ELSE [k \in DOMAIN idem.items \cup {key} |->
          IF k = key THEN at + idem.ttl ELSE idem.items[k]]

\* s.items after seen(key) at the time at
SeenItems(key, at) ==
  IF key = "" \/ SeenResult(key, at) THEN idem.items
  ELSE [k \in DOMAIN idem.items \cup {key} |->
          IF k = key THEN at + idem.ttl ELSE idem.items[k]]

\* observer: the time of the latest sighting of key that returned false
ObsSeen(key, at, result) ==
  [obs EXCEPT !.seen = IF result THEN @
                       ELSE [k \in DOMAIN @ \cup {key} |->
                               IF k = key THEN at ELSE @[k]],
              !.n = @ + 1]

\* what s.seen(key) does to the table and the observer
SeenStep(key) ==
  /\ idem' = [idem EXCEPT !.items = SeenItems(key, clock)]
  /\ obs' = ObsSeen(key, clock, SeenResult(key, clock))

\* idempotencyStore.seen
seen(key) ==
  /\ obs.n < MaxCalls
  /\ SeenStep(key)
  /\ ret' = [op |-> "seen", key |-> key, at |-> clock,
             result |-> SeenResult(key, clock),
             before |-> idem.items,
             after |-> SeenItems(key, clock),
             sighted |-> key \in DOMAIN obs.seen,
             start |-> IF key \in DOMAIN obs.seen THEN obs.seen[key] ELSE 0]
  /\ UNCHANGED <<alertVars, clock, rl, viewers, cfg, sweeper, mu, goroutines,
            nonceCache>>

\* idempotencyMiddleware: TRUE when the request is answered 409
IdemRejects(key) == key # "" /\ SeenResult(key, clock)

\* idempotencyMiddleware, in front of a next handler that answers 200
idempotencyMiddleware(key) ==
  /\ obs.n < MaxCalls
  /\ IF key # "" THEN SeenStep(key)
     ELSE /\ obs' = [obs EXCEPT !.n = @ + 1]
          /\ UNCHANGED idem
  /\ ret' = [op |-> "idempotency", key |-> key, at |-> clock,
             status |-> IF IdemRejects(key) THEN 409 ELSE 200]
  /\ UNCHANGED <<alertVars, clock, rl, viewers, cfg, sweeper, mu, goroutines,
            nonceCache>>

\* the items after the loop over s.items: exp.Before(now) deletes
SweptItems == Restrict(idem.items, {k \in DOMAIN idem.items : ~(idem.items[k] < clock)})

\* one tick of idempotencyStore.cleanupLoop: the entries that expired are deleted
cleanupLoop ==
  /\ \E k \in DOMAIN idem.items : idem.items[k] < clock
  /\ idem' = [idem EXCEPT !.items = SweptItems]
  /\ UNCHANGED <<alertVars, clock, rl, ret, viewers, obs, cfg, sweeper, mu, goroutines,
            nonceCache>>

\* The goroutine of cleanupLoop(ctx). ctx is "background" (never cancelled, as
\* in main), "live" or "cancelled"; pc is "select" while the loop runs and
\* "done" after its return; tick: a tick waits in t.C; due: the time of the
\* next tick; swept: the time of the last sweep, -1 before the first.
StartCleanup(ctx, ttl) ==
  [ctx |-> ctx, pc |-> "select", tick |-> FALSE, due |-> ttl, swept |-> -1]

\* the ticker of period s.ttl puts a tick into t.C, which holds one
TickerFires ==
  /\ sweeper.pc = "select"
  /\ clock >= sweeper.due
  /\ sweeper' = [sweeper EXCEPT !.tick = TRUE, !.due = @ + idem.ttl]
  /\ UNCHANGED <<alertVars, clock, rl, idem, ret, viewers, obs, cfg, mu, goroutines,
            nonceCache>>

\* a loop that returns after its first sweep
AfterSweepReturns(s) == [s EXCEPT !.tick = FALSE, !.swept = clock, !.pc = "done"]

\* the goroutine after the body of case <-t.C: back at the select
AfterSweep(s) == [s EXCEPT !.tick = FALSE, !.swept = clock]

\* case <-t.C: of cleanupLoop
cleanupTick ==
  /\ sweeper.pc = "select"
  /\ sweeper.tick
  /\ idem' = [idem EXCEPT !.items = SweptItems]
  /\ sweeper' = AfterSweep(sweeper)
  /\ UNCHANGED <<alertVars, clock, rl, ret, viewers, obs, cfg, mu, goroutines,
            nonceCache>>

\* the owner of ctx cancels it
CancelContext ==
  /\ sweeper.ctx = "live"
  /\ sweeper' = [sweeper EXCEPT !.ctx = "cancelled"]
  /\ UNCHANGED <<alertVars, clock, rl, idem, ret, viewers, obs, cfg, mu, goroutines,
            nonceCache>>

\* case <-ctx.Done(): return, and the deferred t.Stop()
cleanupReturn ==
  /\ sweeper.pc = "select"
  /\ sweeper.ctx = "cancelled"
  /\ sweeper' = [sweeper EXCEPT !.pc = "done"]
  /\ UNCHANGED <<alertVars, clock, rl, idem, ret, viewers, obs, cfg, mu, goroutines,
            nonceCache>>

-----------------------------------------------------------------------------
(* Signature check (main.go, hmacMiddleware). Bodies, secrets and          *)
(* signatures are sequences of characters. SHA-256 is not computed: Sum    *)
(* stands for the bytes of the MAC and is injective in key and message, as *)
(* the MAC is taken to be; the hex encoding of those bytes is computed.    *)

\* the byte of each character used in bodies and secrets
ByteOf ==
  ("{" :> 123) @@ ("}" :> 125) @@ ("x" :> 120) @@ ("s" :> 115) @@ ("k" :> 107)
  @@ ("t" :> 116) @@ ("." :> 46) @@ ("0" :> 48) @@ ("5" :> 53) @@ ("9" :> 57)
  @@ ("n" :> 110) @@ ("m" :> 109)

Bytes(s) == [i \in 1..Len(s) |-> ByteOf[s[i]]]

\* mac := hmac.New(sha256.New, secret); mac.Write(body); mac.Sum(nil)
Sum(secret, body) == Bytes(secret) \o <<0>> \o Bytes(body)

HexDigits == <<"0","1","2","3","4","5","6","7","8","9","a","b","c","d","e","f">>

\* hex.EncodeToString
RECURSIVE EncodeToString(_)
EncodeToString(bytes) ==
  IF bytes = <<>> THEN <<>>
  ELSE <<HexDigits[(Head(bytes) \div 16) + 1], HexDigits[(Head(bytes) % 16) + 1]>>
         \o EncodeToString(Tail(bytes))

\* a comparison that ignores the case of the hex digits
hmacEqualFold(a, b) == ToLower(a) = ToLower(b)

\* hmac.Equal: the same bytes
hmacEqual(a, b) == a = b

\* a request body as a stream: the bytes the client sent, the position of the
\* next read, and whether reading fails
Stream(data, err) == [data |-> data, pos |-> 0, err |-> err]

\* io.ReadAll(r.Body): the bytes from the position on
ReadAll(body) ==
  [bytes |-> IF body.err THEN <<>>
             ELSE SubSeq(body.data, body.pos + 1, Len(body.data)),
   err |-> body.err]

\* the stream after io.ReadAll
Drained(body) == [body EXCEPT !.pos = Len(body.data)]

\* a restore that hands on the stream as ReadAll left it
RestoreNothing(body, read) == Drained(body)

\* r.Body = io.NopCloser(bytes.NewBuffer(body))
Restore(body, read) == Stream(read, FALSE)

\* hmacMiddleware: the status it answers (0: it calls next) and the body stream
\* it leaves to the next handler
hmacMiddleware(secret, sig, body) ==
  IF secret = <<>> THEN [status |-> 0, body |-> body]
  ELSE IF sig = <<>> THEN [status |-> 401, body |-> body]
  ELSE LET read == ReadAll(body)
           expected == EncodeToString(Sum(secret, read.bytes))
       IN IF read.err THEN [status |-> 400, body |-> Drained(body)]
          ELSE IF ~hmacEqual(sig, expected)
          THEN [status |-> 401, body |-> Restore(body, read.bytes)]
          ELSE [status |-> 0, body |-> Restore(body, read.bytes)]

-----------------------------------------------------------------------------
(* Ingestion endpoint: /webhook behind its admission chain (main.go:338).  *)
(* A request has no query string and no form content type.                 *)

\* strings.Split(r.RemoteAddr, ":")[0]
ClientKey(remoteAddr) ==
  IF \E i \in 1..Len(remoteAddr) : remoteAddr[i] = ":"
  THEN SubSeq(remoteAddr, 1,
              (CHOOSE i \in 1..Len(remoteAddr) :
                 /\ remoteAddr[i] = ":"
                 /\ \A j \in 1..(i - 1) : remoteAddr[j] # ":") - 1)
  ELSE remoteAddr

\* A payload (map[string]any) is a function from its keys to JSON values: a
\* string, a number (a natural number here) or null.
Str(s) == [kind |-> "string", s |-> s, n |-> 0]
Num(n) == [kind |-> "number", s |-> <<>>, n |-> n]
Null == [kind |-> "null", s |-> <<>>, n |-> 0]

\* the characters of the keys the handler reads
KeyText ==
  [k \in {"source", "level", "severity", "status", "title", "alert_name",
          "event", "message", "description", "detail", "raw"} |->
     CASE k = "source" -> <<"s","o","u","r","c","e">>
       [] k = "level" -> <<"l","e","v","e","l">>
       [] k = "severity" -> <<"s","e","v","e","r","i","t","y">>
       [] k = "status" -> <<"s","t","a","t","u","s">>
       [] k = "title" -> <<"t","i","t","l","e">>
       [] k = "alert_name" -> <<"a","l","e","r","t","_","n","a","m","e">>
       [] k = "event" -> <<"e","v","e","n","t">>
       [] k = "message" -> <<"m","e","s","s","a","g","e">>
       [] k = "description" -> <<"d","e","s","c","r","i","p","t","i","o","n">>
       [] k = "detail" -> <<"d","e","t","a","i","l">>
       [] k = "raw" -> <<"r","a","w">>]

Keys == DOMAIN KeyText

\* payload[key]: nil for a key that is absent
Field(payload, key) == IF key \in DOMAIN payload THEN payload[key] ELSE Null

DigitChars == <<"0","1","2","3","4","5","6","7","8","9">>

\* strconv.FormatFloat(t, 'f', -1, 64) of a natural number
FormatFloat(n) == [i \in 1..Len(Itoa(n)) |-> DigitChars[Itoa(n)[i] + 1]]

\* getString
getString(v) ==
  IF v.kind = "string" THEN v.s
  ELSE IF v.kind = "number" THEN FormatFloat(v.n)
  ELSE <<>>

\* the byte of a character of a key
KeyByte(c) ==
  IF c = "_" THEN 95 ELSE 96 + (CHOOSE i \in 1..26 : LowerLetters[i] = c)

\* bytewise order of two keys, the order in which encoding/json writes a map
RECURSIVE TextLess(_, _)
TextLess(a, b) ==
  IF b = <<>> THEN FALSE
  ELSE IF a = <<>> THEN TRUE
  ELSE IF Head(a) # Head(b) THEN KeyByte(Head(a)) < KeyByte(Head(b))
  ELSE TextLess(Tail(a), Tail(b))

RECURSIVE SortedKeys(_)
SortedKeys(S) ==
  IF S = {} THEN <<>>
  ELSE LET k == CHOOSE x \in S : \A y \in S \ {x} : TextLess(KeyText[x], KeyText[y])
       IN <<k>> \o SortedKeys(S \ {k})

\* the JSON text of a value
MarshalValue(v) ==
  IF v.kind = "string" THEN <<"\"">> \o v.s \o <<"\"">>
  ELSE IF v.kind = "number" THEN FormatFloat(v.n)
  ELSE <<"n","u","l","l">>

RECURSIVE MarshalMembers(_, _)
MarshalMembers(payload, keys) ==
  IF keys = <<>> THEN <<>>
  ELSE <<"\n"," "," ","\"">> \o KeyText[Head(keys)] \o <<"\"",":"," ">>
       \o MarshalValue(payload[Head(keys)])
       \o (IF Len(keys) > 1 THEN <<",">> ELSE <<>>)
       \o MarshalMembers(payload, Tail(keys))

\* json.MarshalIndent(payload, "", "  ")
MarshalIndent(payload) ==
  IF DOMAIN payload = {} THEN <<"{","}">>
  ELSE <<"{">> \o MarshalMembers(payload, SortedKeys(DOMAIN payload)) \o <<"\n","}">>

NoFields == [k \in {} |-> Null]

\* map[string]any{"raw": "unparseable payload"}
RawPayload ==
  [k \in {"raw"} |->
     Str(<<"u","n","p","a","r","s","e","a","b","l","e"," ","p","a","y","l","o","a","d">>)]

\* json.NewDecoder(r.Body).Decode(&payload) and the fallbacks after it: the
\* payload decoded from what the handler reads
DecodePayload(read) ==
  IF ~read.err /\ read.bytes = <<"{","}">> THEN NoFields
  ELSE RawPayload

DefaultSource == <<"u","n","k","n","o","w","n">>
DefaultLevel == <<"i","n","f","o">>
DefaultTitle == <<"A","l","e","r","t">>

\* a request without the query parameter source
NoQuery == <<>>

\* the first of the candidates that is not empty; the default if all are
OrElse(first, rest) == IF first # <<>> THEN first ELSE rest

\* source: body field, query parameter, "unknown"
SourceOf(payload, query) ==
  OrElse(getString(Field(payload, "source")), OrElse(query, DefaultSource))

\* a reading of level that asks status before severity
LevelOfStatusFirst(payload) ==
  OrElse(getString(Field(payload, "level")),
         OrElse(getString(Field(payload, "status")),
                OrElse(getString(Field(payload, "severity")), DefaultLevel)))

\* level: level, severity, status, "info"
LevelOf(payload) ==
  OrElse(getString(Field(payload, "level")),
         OrElse(getString(Field(payload, "severity")),
                OrElse(getString(Field(payload, "status")), DefaultLevel)))

\* title: title, alert_name, event, "Alert"
TitleOf(payload) ==
  OrElse(getString(Field(payload, "title")),
         OrElse(getString(Field(payload, "alert_name")),
                OrElse(getString(Field(payload, "event")), DefaultTitle)))

\* message: message, description, detail, the payload as indented JSON
MessageOf(payload) ==
  OrElse(getString(Field(payload, "message")),
         OrElse(getString(Field(payload, "description")),
                OrElse(getString(Field(payload, "detail")), MarshalIndent(payload))))

\* WebhookHandler after the method check and the decoding: the fields, AddAlert,
\* the answer. The request is the one drawn at the start.
WebhookHandler(outcome) ==
  /\ ret.op = "request"
  /\ AddAlert(SourceOf(ret.payload, ret.query), LevelOf(ret.payload),
              TitleOf(ret.payload), MessageOf(ret.payload), outcome)
  /\ ret' = [op |-> "handler", payload |-> ret.payload, query |-> ret.query,
             call |-> Len(calls) + 1,
             status |-> IF AddFails(outcome) THEN 500 ELSE 200]
  /\ UNCHANGED <<clock, rl, idem, viewers, obs, cfg, sweeper, mu, goroutines,
            nonceCache>>

\* the middlewares in front of the webhook handler, in another order
WebhookChainIdemFirst == <<"idempotency", "rateLimit", "hmac">>

\* wrap(h.WebhookHandler, rateLimitMiddleware(rl), idempotencyMiddleware(idStore),
\*      hmacMiddleware(webhookSecret))
WebhookChain == <<"rateLimit", "idempotency", "hmac">>

\* the status with which a middleware answers req itself; 0 when it calls next
StageStatus(stage, req) ==
  IF stage = "rateLimit"
  THEN IF AllowResult(ClientKey(req.remoteAddr), clock) THEN 0 ELSE 429
  ELSE IF stage = "idempotency"
  THEN IF IdemRejects(req.key) THEN 409 ELSE 0
  ELSE hmacMiddleware(cfg.secret, req.sig, req.body).status

\* wrap: the middlewares run in order, each calling the next unless it answers;
\* status is 0 when the handler is reached
RECURSIVE wrap(_, _)
wrap(middlewares, req) ==
  IF middlewares = <<>> THEN [status |-> 0, ran |-> {}]
  ELSE LET s == StageStatus(Head(middlewares), req)
       IN IF s # 0 THEN [status |-> s, ran |-> {Head(middlewares)}]
          ELSE LET rest == wrap(Tail(middlewares), req)
               IN [status |-> rest.status, ran |-> rest.ran \cup {Head(middlewares)}]

\* the body stream the handler is given
HandlerBody(ran, req) ==
  IF "hmac" \in ran THEN hmacMiddleware(cfg.secret, req.sig, req.body).body
  ELSE req.body

\* a request to /webhook. outcome names the Redis call of AddAlert that fails.
Webhook(req, outcome) ==
  LET w == wrap(WebhookChain, req)
      ip == ClientKey(req.remoteAddr)
      adds == w.status = 0 /\ req.method = "POST"
      read == ReadAll(HandlerBody(w.ran, req))
      payload == DecodePayload(read)
  IN /\ obs.n < MaxRequests
     /\ adds \/ outcome = "none"
     /\ rl' = IF "rateLimit" \in w.ran
              THEN [rl EXCEPT !.tokens = AllowTokens(ip, clock)] ELSE rl
     /\ idem' = IF "idempotency" \in w.ran
                THEN [idem EXCEPT !.items = SeenItems(req.key, clock)] ELSE idem
     /\ obs' = [obs EXCEPT !.n = @ + 1]
     /\ IF adds
        THEN AddAlert(SourceOf(payload, NoQuery), LevelOf(payload),
                      TitleOf(payload), MessageOf(payload), outcome)
        ELSE UNCHANGED alertVars
     /\ ret' = [op |-> "webhook", req |-> req, at |-> clock,
                status |-> IF w.status # 0 THEN w.status
                           ELSE IF req.method # "POST" THEN 405
                           ELSE IF AddFails(outcome) THEN 500
                           ELSE 200,
                ran |-> w.ran,
                handler |-> w.status = 0,
                read |-> IF adds THEN read.bytes ELSE <<>>,
                limited |-> StageStatus("rateLimit", req) # 0,
                dup |-> StageStatus("idempotency", req) # 0,
                sig |-> StageStatus("hmac", req),
                idemBefore |-> idem.items,
                idemAfter |-> idem'.items,
                storeBefore |-> <<storeVars, Len(events), Len(calls)>>]
     /\ UNCHANGED <<clock, viewers, cfg, sweeper, mu, goroutines, nonceCache>>

-----------------------------------------------------------------------------
(* Bot relay endpoint: /bot/{token}/sendMessage (handlers/admin.go).  The  *)
(* bots are those of the admin store; bots maps the token of each          *)
(* registered bot to its name.                                             *)

HasPrefix(s, prefix) ==
  Len(s) >= Len(prefix) /\ SubSeq(s, 1, Len(prefix)) = prefix

HasSuffix(s, suffix) ==
  Len(s) >= Len(suffix) /\ SubSeq(s, Len(s) - Len(suffix) + 1, Len(s)) = suffix

TrimPrefix(s, prefix) ==
  IF HasPrefix(s, prefix) THEN SubSeq(s, Len(prefix) + 1, Len(s)) ELSE s

TrimSuffix(s, suffix) ==
  IF HasSuffix(s, suffix) THEN SubSeq(s, 1, Len(s) - Len(suffix)) ELSE s

BotPrefix == <<"/","b","o","t","/">>
SendMessage == <<"/","s","e","n","d","M","e","s","s","a","g","e">>
BotTitle == <<"B","o","t"," ","M","e","s","s","a","g","e">>

\* a lookup that finds a bot for every token
GetBotByTokenAny(bots, token) ==
  IF token \in DOMAIN bots THEN [err |-> FALSE, name |-> bots[token]]
  ELSE [err |-> FALSE, name |-> <<>>]

\* AdminStore.GetBotByToken: the bot, or an error for a token that has none
GetBotByToken(bots, token) ==
  IF token \in DOMAIN bots THEN [err |-> FALSE, name |-> bots[token]]
  ELSE [err |-> TRUE, name |-> <<>>]

\* json.NewDecoder(r.Body).Decode(&req) into {ChatID string; Text string}: a
\* body that is no JSON object, or whose chat_id is no string, is an error
DecodeSendMessage(body) ==
  IF body.kind # "object" \/ (body.has /\ body.type \notin {"string", "null"})
  THEN [err |-> TRUE, ChatID |-> <<>>, Text |-> <<>>]
  ELSE [err |-> FALSE, ChatID |-> IF body.has /\ body.type = "string" THEN body.val ELSE <<>>,
        Text |-> body.text]

\* fmt.Sprintf("bot:%s:chat:%s", bot.Name, req.ChatID)
BotSource(name, chatID) ==
  <<"b","o","t",":">> \o name \o <<":","c","h","a","t",":">> \o chatID

\* the status BotWebhookHandler answers with before it calls AddAlert; 0 if it
\* calls it
BotRejects(bots, req) ==
  LET path == TrimPrefix(req.path, BotPrefix)
      token == TrimSuffix(path, SendMessage)
  IN IF req.method # "POST" THEN 405
     ELSE IF ~HasSuffix(path, SendMessage) THEN 404
     ELSE IF token = <<>> THEN 400
     ELSE IF GetBotByToken(bots, token).err THEN 401
     ELSE IF DecodeSendMessage(req.body).err THEN 400
     ELSE 0

\* handlers.BotWebhookHandler
BotWebhookHandler(bots, req, outcome) ==
  LET token == TrimSuffix(TrimPrefix(req.path, BotPrefix), SendMessage)
      bot == GetBotByToken(bots, token)
      msg == DecodeSendMessage(req.body)
      status == BotRejects(bots, req)
  IN /\ status = 0 \/ outcome = "none"
     /\ IF status = 0
        THEN AddAlert(BotSource(bot.name, msg.ChatID), DefaultLevel, BotTitle,
                      msg.Text, outcome)
        ELSE UNCHANGED alertVars
     /\ ret' = [op |-> "bot", req |-> req, bots |-> bots,
                status |-> IF status # 0 THEN status
                           ELSE IF AddFails(outcome) THEN 500 ELSE 200,
                storeBefore |-> <<storeVars, Len(events), Len(calls)>>]
     /\ UNCHANGED <<clock, rl, idem, viewers, obs, cfg, sweeper, mu, goroutines,
            nonceCache>>

-----------------------------------------------------------------------------
(* The event stream.  viewers is the sequence of the connections made to   *)
(* /events, in the order of their arrival.  A connection holds the         *)
(* position of its subscription in the channel: from is the number of      *)
(* events published when it subscribed, next the event its Go channel      *)
(* hands out next.  wrote is the frames the handler has written, got is    *)
(* what has reached the client: the events, by their position in the       *)
(* channel, that were written while the client was still there.  disc and  *)
(* closed are the numbers of events published when the client went away    *)
(* and when the subscription was closed, -1 before.  pc is the position of *)
(* the handler: "handshake" after Subscribe, "loop" in its select loop,    *)
(* "done" after its return.  adds is the number of AddAlert calls that had *)
(* returned when it subscribed.                                            *)

\* a subscription that is also handed the last event published before it
SubscribedFromLast == IF events = <<>> THEN 0 ELSE Len(events) - 1

\* s.client.Subscribe(ctx, "alert_events"): the position in the channel after
\* which the subscription gets the events, those published from now on
SubscribedFrom == Len(events)

\* the connections of viewer v that the client has not left
Connected(v) == {i \in DOMAIN viewers : viewers[i].viewer = v /\ viewers[i].disc < 0}

\* fmt.Fprintf(w, "data: %s\n\n", "connected")
HandshakeFrame == [msg |-> 0, data |-> "connected"]

\* fmt.Fprintf(w, "data: %s\n\n", msg.Payload) for the n-th message of the channel
MessageFrame(n) == [msg |-> n, data |-> events[n].data]

\* a writer that puts each frame in front of those already written
WrittenFirst(s, frame) == <<frame>> \o s.wrote

\* the response after Fprintf and Flush
Written(s, frame) == Append(s.wrote, frame)

\* a write that reaches nobody
DeliveredNever(s) == s.got

\* the events at the client after message s.next was written: a write to a
\* connection the client has left reaches nobody
Delivered(s) == IF s.disc < 0 THEN Append(s.got, s.next) ELSE s.got

\* a return that leaves the subscription open
AfterReturnLeak(s) == [s EXCEPT !.pc = "done"]

\* return, then the deferred pubsub.Close()
AfterReturn(s) == [s EXCEPT !.pc = "done", !.closed = Len(events)]

\* SSEHandler up to its first write: headers, Subscribe, Channel. A viewer has
\* one connection at a time and connects again after it has left.
SSEHandler(v) ==
  /\ Len(viewers) < MaxViewers
  /\ Connected(v) = {}
  /\ viewers' = Append(viewers,
                       [viewer |-> v, pc |-> "handshake", from |-> Len(events),
                        adds |-> Len(calls),
                        next |-> SubscribedFrom + 1, hello |-> FALSE,
                        wrote |-> <<>>, got |-> <<>>, disc |-> -1, closed |-> -1])
  /\ UNCHANGED <<alertVars, clock, rl, idem, ret, obs, cfg, sweeper, mu, goroutines,
            nonceCache>>

\* the initial connection message; hello: it reached the client
SSEHandshake(i) ==
  /\ i \in DOMAIN viewers
  /\ viewers[i].pc = "handshake"
  /\ viewers' = [viewers EXCEPT
                   ![i].pc = "loop",
                   ![i].wrote = Written(viewers[i], HandshakeFrame),
                   ![i].hello = viewers[i].disc < 0]
  /\ UNCHANGED <<alertVars, clock, rl, idem, ret, obs, cfg, sweeper, mu, goroutines,
            nonceCache>>

\* case msg := <-ch: the handler writes the next event of its subscription
SSEWrite(i) ==
  /\ i \in DOMAIN viewers
  /\ viewers[i].pc = "loop"
  /\ viewers[i].next <= Len(events)
  /\ viewers' = [viewers EXCEPT
                   ![i].next = @ + 1,
                   ![i].wrote = Written(viewers[i], MessageFrame(viewers[i].next)),
                   ![i].got = Delivered(viewers[i])]
  /\ UNCHANGED <<alertVars, clock, rl, idem, ret, obs, cfg, sweeper, mu, goroutines,
            nonceCache>>

\* the client closes the connection: r.Context() is cancelled
Disconnect(i) ==
  /\ i \in DOMAIN viewers
  /\ viewers[i].disc < 0
  /\ viewers' = [viewers EXCEPT ![i].disc = Len(events)]
  /\ UNCHANGED <<alertVars, clock, rl, idem, ret, obs, cfg, sweeper, mu, goroutines,
            nonceCache>>

\* case <-r.Context().Done(): the handler returns and pubsub.Close() runs
SSEReturn(i) ==
  /\ i \in DOMAIN viewers
  /\ viewers[i].disc >= 0
  /\ viewers[i].pc = "loop"
  /\ viewers' = [viewers EXCEPT ![i] = AfterReturn(viewers[i])]
  /\ UNCHANGED <<alertVars, clock, rl, idem, ret, obs, cfg, sweeper, mu, goroutines,
            nonceCache>>

-----------------------------------------------------------------------------
(* Concurrent callers (main.go).  net/http runs every request in its own    *)
(* goroutine, so allow and seen are called concurrently.  goroutines is the *)
(* sequence of these calls in the order they were made: op and key, pc      *)
(* ("lock" in front of mu.Lock(), "read" and "write" inside the critical    *)
(* section, "done" after the return and the deferred Unlock), now, the      *)
(* value of time.Now() the call read, result, the value it returns, and     *)
(* what it is about to store: the bucket of allow, the expiry of seen.      *)
(* overlap is the number of calls in flight when the call was made.  mu     *)
(* holds, for each of the two mutexes, the goroutine inside, 0 for none.    *)
(* ref is what seen would return from a table that was never swept: the     *)
(* observer obs.seen is kept as that table, in the order of the locks.       *)

\* a mutex that lets everybody in
LockFreeAlways(holder) == holder >= 0

\* mu.Lock() returns when nobody holds the mutex
LockFree(holder) == holder = 0

\* the mutex an operation takes: rl.mu or the mu of the idempotency store
Mutex(op) == IF op = "allow" THEN "rl" ELSE "idem"

InFlight == {i \in DOMAIN goroutines : goroutines[i].pc # "done"}

\* an assignment that is lost
StoredNothing(table, key, v) == table

\* table[key] = v
Stored(table, key, v) ==
  [k \in DOMAIN table \cup {key} |-> IF k = key THEN v ELSE table[k]]

\* a request goroutine calls rl.allow(key)
GoAllow(key) ==
  /\ Len(goroutines) < MaxGoroutines
  /\ goroutines' = Append(goroutines,
                          [op |-> "allow", key |-> key, pc |-> "lock", now |-> -1,
                           result |-> FALSE, bucket |-> [tokens |-> 0, last |-> 0],
                           overlap |-> Cardinality(InFlight)])
  /\ UNCHANGED <<alertVars, clock, rl, idem, ret, viewers, obs, cfg, sweeper, mu,
            nonceCache>>

\* a request goroutine calls seen(key): the return for the empty key, and
\* now := time.Now(), come before s.mu.Lock()
GoSeen(key) ==
  /\ Len(goroutines) < MaxGoroutines
  /\ goroutines' = Append(goroutines,
                          [op |-> "seen", key |-> key,
                           pc |-> IF key = "" THEN "done" ELSE "lock",
                           now |-> clock, result |-> FALSE, exp |-> 0,
                           ref |-> FALSE,
                           overlap |-> Cardinality(InFlight)])
  /\ UNCHANGED <<alertVars, clock, rl, idem, ret, viewers, obs, cfg, sweeper, mu,
            nonceCache>>

\* rl.mu.Lock() and s.mu.Lock()
Lock(i) ==
  /\ i \in DOMAIN goroutines
  /\ goroutines[i].pc = "lock"
  /\ LockFree(mu[Mutex(goroutines[i].op)])
  /\ mu' = [mu EXCEPT ![Mutex(goroutines[i].op)] = i]
  /\ goroutines' = [goroutines EXCEPT ![i].pc = "read"]
  /\ UNCHANGED <<alertVars, clock, rl, idem, ret, viewers, obs, cfg, sweeper,
            nonceCache>>

\* allow, from time.Now() to the decision: the bucket is read and its new
\* value computed
allowRead(i) ==
  /\ i \in DOMAIN goroutines
  /\ goroutines[i].op = "allow" /\ goroutines[i].pc = "read"
  /\ goroutines' = [goroutines EXCEPT
                      ![i].pc = "write",
                      ![i].now = clock,
                      ![i].result = AllowResult(goroutines[i].key, clock),
                      ![i].bucket = AllowTokens(goroutines[i].key, clock)[goroutines[i].key]]
  /\ UNCHANGED <<alertVars, clock, rl, idem, ret, viewers, obs, cfg, sweeper, mu,
            nonceCache>>

\* allow, the assignments to the bucket, the return and the deferred Unlock
allowWrite(i) ==
  /\ i \in DOMAIN goroutines
  /\ goroutines[i].op = "allow" /\ goroutines[i].pc = "write"
  /\ rl' = [rl EXCEPT !.tokens = Stored(@, goroutines[i].key, goroutines[i].bucket)]
  /\ mu' = [mu EXCEPT !.rl = 0]
  /\ goroutines' = [goroutines EXCEPT ![i].pc = "done"]
  /\ UNCHANGED <<alertVars, clock, idem, ret, viewers, obs, cfg, sweeper,
            nonceCache>>

\* observer: the result of seen(key) with the time at, from a table that holds
\* every first sighting
SeenUnswept(key, at) ==
  /\ key \in DOMAIN obs.seen
  /\ obs.seen[key] + idem.ttl > at

\* seen, exp, ok := s.items[key]; ok && exp.After(now)
seenRead(i) ==
  /\ i \in DOMAIN goroutines
  /\ goroutines[i].op = "seen" /\ goroutines[i].pc = "read"
  /\ goroutines' = [goroutines EXCEPT
                      ![i].pc = "write",
                      ![i].result = SeenResult(goroutines[i].key, goroutines[i].now),
                      ![i].exp = goroutines[i].now + idem.ttl,
                      ![i].ref = SeenUnswept(goroutines[i].key, goroutines[i].now)]
  /\ UNCHANGED <<alertVars, clock, rl, idem, ret, viewers, obs, cfg, sweeper, mu,
            nonceCache>>

\* seen, s.items[key] = now.Add(s.ttl) unless it returns true, the return and
\* the deferred Unlock
seenWrite(i) ==
  /\ i \in DOMAIN goroutines
  /\ goroutines[i].op = "seen" /\ goroutines[i].pc = "write"
  /\ idem' = IF goroutines[i].result THEN idem
             ELSE [idem EXCEPT !.items = Stored(@, goroutines[i].key, goroutines[i].exp)]
  /\ mu' = [mu EXCEPT !.idem = 0]
  /\ goroutines' = [goroutines EXCEPT ![i].pc = "done"]
  /\ obs' = ObsSeen(goroutines[i].key, goroutines[i].now, goroutines[i].ref)
  /\ UNCHANGED <<alertVars, clock, rl, ret, viewers, cfg, sweeper, nonceCache>>

\* case <-t.C: of cleanupLoop, which sweeps inside s.mu
cleanupLocked ==
  /\ LockFree(mu.idem)
  /\ cleanupTick

-----------------------------------------------------------------------------
(* Signature with timestamp and nonce (handlers/security.go).  In the       *)
(* specification of these functions the clock counts minutes, and a         *)
(* timestamp header is the decimal text of a minute; any other text does    *)
(* not parse.  The observer keeps, for every nonce, the time of the latest  *)
(* request that presented it (obs.presented) and the time it was last       *)
(* entered into a replay cache that is kept as the amended claim C36 says   *)
(* (obs.entered).                                                           *)

\* maxSkew = 5 * time.Minute
maxSkew == 5

DigitOf(c) == (CHOOSE i \in DOMAIN DigitChars : DigitChars[i] = c) - 1

RECURSIVE DigitsValue(_)
DigitsValue(text) ==
  IF text = <<>> THEN 0
  ELSE 10 * DigitsValue(SubSeq(text, 1, Len(text) - 1)) + DigitOf(text[Len(text)])

\* time.Parse(time.RFC3339, ts)
ParseTime(ts) ==
  IF ts # <<>> /\ \A i \in DOMAIN ts : ts[i] \in Range(DigitChars)
  THEN [ok |-> TRUE, t |-> DigitsValue(ts)]
  ELSE [ok |-> FALSE, t |-> 0]

\* a window that includes its two ends
withinSkewInclusive(ts, at) ==
  /\ ParseTime(ts).ok
  /\ ParseTime(ts).t >= at - maxSkew
  /\ ParseTime(ts).t <= at + maxSkew

\* withinSkew: t.After(now.Add(-maxSkew)) && t.Before(now.Add(maxSkew))
withinSkew(ts, at) ==
  /\ ParseTime(ts).ok
  /\ ParseTime(ts).t > at - maxSkew
  /\ ParseTime(ts).t < at + maxSkew

\* isReplay: the value it returns
isReplay(nonce, at) ==
  /\ nonce # <<>>
  /\ nonce \in DOMAIN nonceCache
  /\ nonceCache[nonce] > at

\* isReplay: nonceCache after the call
CacheAfterReplay(nonce, at) ==
  IF nonce = <<>> \/ isReplay(nonce, at) THEN nonceCache
  ELSE Stored(nonceCache, nonce, at + maxSkew)

\* the request carries both X-Sentinel-Timestamp and X-Sentinel-Nonce
Bound(req) == req.ts # <<>> /\ req.nonce # <<>>

\* what the MAC is taken of: ts "." nonce "." body with both headers, else body
MacInput(req, body) ==
  IF Bound(req) THEN req.ts \o <<".">> \o req.nonce \o <<".">> \o body ELSE body

\* validateSignature(r, secret, sig): the value it returns
SignatureValid(req, secret, at) ==
  /\ req.sig # <<>>
  /\ ~ReadAll(req.body).err
  /\ Bound(req) => (withinSkew(req.ts, at) /\ ~isReplay(req.nonce, at))
  /\ hmacEqual(req.sig,
               EncodeToString(Sum(secret, MacInput(req, ReadAll(req.body).bytes))))

\* validateSignature reaches isReplay(nonce): || is evaluated left to right
ReachesReplay(req, at) ==
  /\ req.sig # <<>>
  /\ ~ReadAll(req.body).err
  /\ Bound(req)
  /\ withinSkew(req.ts, at)

\* observer: the nonce of req is entered into the replay cache of the amended
\* claim
Enters(req, at) ==
  /\ req.sig # <<>> /\ ~req.body.err /\ Bound(req)
  /\ ParseTime(req.ts).ok
  /\ ParseTime(req.ts).t > at - maxSkew /\ ParseTime(req.ts).t < at + maxSkew
  /\ ~(req.nonce \in DOMAIN obs.entered /\ at - obs.entered[req.nonce] < maxSkew)

ObsNonce(req, at) ==
  [obs EXCEPT !.n = @ + 1,
              !.presented = IF req.nonce = <<>> THEN @ ELSE Stored(@, req.nonce, at),
              !.entered = IF Enters(req, at) THEN Stored(@, req.nonce, at) ELSE @]

\* validateSignature
validateSignature(req) ==
  /\ obs.n < MaxRequests
  /\ nonceCache' = IF ReachesReplay(req, clock)
                   THEN CacheAfterReplay(req.nonce, clock) ELSE nonceCache
  /\ obs' = ObsNonce(req, clock)
  /\ ret' = [op |-> "validateSignature", req |-> req, at |-> clock,
             ok |-> SignatureValid(req, cfg.secret, clock),
             presented |-> obs.presented, entered |-> obs.entered]
  /\ UNCHANGED <<alertVars, clock, rl, idem, viewers, cfg, sweeper, mu, goroutines>>

\* the check of the older validateSharedSecret (unnamed/part_006): no secret,
\* or a signature that is the hex HMAC-SHA256 of the readable body
SharedSecretChecked(req, secret) ==
  \/ secret = <<>>
  \/ /\ req.sig # <<>>
     /\ ~req.body.err
     /\ req.sig = EncodeToString(Sum(secret, req.body.data))

\* validateSharedSecret: "return true"; the check that follows the return is
\* commented out
SharedSecretValid(req, secret) == TRUE

\* validateSharedSecret
validateSharedSecret(req) ==
  /\ obs.n < MaxCalls
  /\ obs' = [obs EXCEPT !.n = @ + 1]
  /\ ret' = [op |-> "validateSharedSecret", req |-> req, at |-> clock,
             ok |-> SharedSecretValid(req, cfg.secret)]
  /\ UNCHANGED <<alertVars, clock, rl, idem, viewers, cfg, sweeper, mu, goroutines,
                 nonceCache>>

-----------------------------------------------------------------------------
(* Specifications *)

\* rl := newRateLimiter(60, 30, time.Second), the clock in milliseconds
MainLimiter == newRateLimiter(60, 30, 1000)

\* idStore := newIdempotencyStore(10 * time.Minute)
MainIdem == newIdempotencyStore(600000)

NoViewers == <<>>

NoObs == [allow |-> Empty, seen |-> Empty, n |-> 0, presented |-> Empty,
          entered |-> Empty]

\* sync.Mutex zero values: nobody holds rl.mu or s.mu
NoLocks == [rl |-> 0, idem |-> 0]

\* the server with the limiter and idempotency store given, nothing received yet
AdmAt(limiter, idStore, secret) ==
  /\ clock = 0
  /\ rl = limiter
  /\ idem = idStore
  /\ ret = [op |-> "init"]
  /\ viewers = NoViewers
  /\ obs = NoObs
  /\ cfg = [secret |-> secret]
  /\ mu = NoLocks
  /\ goroutines = <<>>
  /\ nonceCache = Empty
  /\ sweeper = StartCleanup("background", idStore.ttl)

\* the store with its counter at start and no alert
StoreAt(start) ==
  /\ now = 0
  /\ nextId = start
  /\ recs = Empty
  /\ timeline = Empty
  /\ levelIdx = Empty
  /\ sourceIdx = Empty
  /\ events = <<>>
  /\ calls = <<>>
  /\ pc = IdleTasks
  /\ purge = IdlePurge
  /\ lister = IdleLister
  /\ last = [op |-> "init"]
  /\ clean = FALSE

InitAt(start) == AdmAt(MainLimiter, MainIdem, <<>>) /\ StoreAt(start)

\* a fresh store
Init == InitAt(0)

\* a store whose counter has reached 8 and whose alerts have all expired
InitLate == \E start \in {0, 8} : InitAt(start)

AddAlertIn(Srcs, Lvls, Ttls, Msgs, Outs) ==
  \E s \in Srcs, l \in Lvls, ti \in Ttls, m \in Msgs, o \in Outs :
    AddAlert(s, l, ti, m, o) /\ UNCHANGED admVars

\* Queries: a set of <<query, level, source>>
SearchAlertsIn(Queries) == \E x \in Queries : SearchAlerts(x[1], x[2], x[3])

PurgeIn(Methods, Bodies) ==
  \E m \in Methods, b \in Bodies : PurgeAlertsHandler(m, b)

TickIn(Deltas) == \E d \in Deltas : Tick(d)

ChatBody(v) == ObjBody(TRUE, "string", v)

\* the store used one operation at a time: every outcome of add, list, search,
\* both purges, expiry
Next ==
  \/ AddAlertIn({SrcChat42, SrcChat7}, {LvlWarn}, {TitleCPU}, {MsgHigh}, AllOutcomes)
  \/ GetAlerts
  \/ SearchAlertsIn({<< <<>>, <<>>, <<>> >>, << <<>>, LvlWarn, <<>> >>})
  \/ PurgeIn({"POST"}, {NoBody, ChatBody(<<"4","2">>)})
  \/ TickIn({alertTTL})

Spec == Init /\ [][Next]_vars

\* listing order: a store whose counter may already stand at 8, alerts created in
\* the same second or one second apart
NextLate ==
  \/ AddAlertIn({SrcChat42}, {LvlWarn}, {TitleCPU}, {MsgHigh}, {"none"})
  \/ GetAlerts
  \/ SearchAlertsIn({<< <<>>, <<>>, <<>> >>})
  \/ PurgeIn({"POST"}, {NoBody})
  \/ TickIn({1, alertTTL})

SpecLate == InitLate /\ [][NextLate]_vars

\* alerts of one level and source added a second apart, up to the time the
\* first of them expires
NextExpiry ==
  \/ AddAlertIn({SrcChat42}, {LvlWarn}, {TitleCPU}, {MsgHigh}, {"none"})
  \/ GetAlerts
  \/ SearchAlertsIn({<< <<>>, LvlWarn, <<>> >>})
  \/ \E d \in {1, alertTTL - 1} : TickCount <= MaxTicks /\ Expire(d)

SpecExpiry == Init /\ [][NextExpiry]_vars

\* searches: levels and sources that differ in case only, text queries
NextSearch ==
  \/ AddAlertIn({SrcX, SrcChat7}, {<<>>, LvlWarn, LvlWARN}, {TitleCPU}, {MsgHigh},
                {"none"})
  \/ GetAlerts
  \/ SearchAlertsIn({<< <<>>, <<>>, <<>> >>, << <<"H"," ","x">>, LvlWARN, <<>> >>,
                     << <<>>, <<>>, <<"x">> >>, << <<>>, LvlWARN, <<"x">> >>,
                     << <<>>, LvlWarn, SrcChat7 >>, << <<"7">>, <<>>, <<>> >>})
  \/ PurgeIn({"POST"}, {NoBody})
  \/ TickIn({alertTTL})

SpecSearch == Init /\ [][NextSearch]_vars

\* the purge endpoint: every shape of request body
NextPurge ==
  \/ AddAlertIn({SrcChat42, SrcChat7, SrcChat4}, {LvlWarn}, {TitleCPU},
                {MsgHigh}, {"none"})
  \/ GetAlerts
  \/ SearchAlertsIn({<< <<>>, LvlWarn, SrcChat7 >>})
  \/ PurgeIn({"POST", "GET"},
             {NoBody, EmptyObj, BadBody, ChatBody(<<>>), ChatBody(<<"4","2">>),
              ChatBody(<<"7">>), ChatBody(<<"4">>),
              ObjBody(TRUE, "number", <<"4","2">>), ObjBody(TRUE, "null", <<>>)})
  \/ TickIn({alertTTL})

SpecPurge == Init /\ [][NextPurge]_vars

\* concurrent tasks: adds, one purge and one list at a time
NextConc ==
  \/ \E t \in 1..NumTasks : AddIncr(t, SrcChat42, LvlWarn, TitleCPU, MsgHigh)
  \/ \E t \in 1..NumTasks : AddStamp(t)
  \/ \E t \in 1..NumTasks : AddExec(t)
  \/ \E t \in 1..NumTasks : AddPublish(t)
  \/ PurgeScan
  \/ PurgeDel
  \/ PurgeTimeline
  \/ PurgeScanLevel
  \/ PurgeDelLevel
  \/ PurgeScanSource
  \/ PurgeDelSource
  \/ ListRange
  \/ ListGet
  \/ ListZRem
  \/ ListReturn

SpecConc == Init /\ [][NextConc]_vars

\* concurrent adds of two different alerts while purgeAll runs
NextConcTwo ==
  \/ \E t \in 1..NumTasks, title \in {TitleCPU, TitleDisk} :
       AddIncr(t, SrcChat42, LvlWarn, title, MsgHigh)
  \/ \E t \in 1..NumTasks : AddStamp(t)
  \/ \E t \in 1..NumTasks : AddExec(t)
  \/ \E t \in 1..NumTasks : AddPublish(t)
  \/ PurgeScan
  \/ PurgeDel
  \/ PurgeTimeline
  \/ PurgeScanLevel
  \/ PurgeDelLevel
  \/ PurgeScanSource
  \/ PurgeDelSource

SpecConcTwo == Init /\ [][NextConcTwo]_vars

ClientKeys == {"10.0.0.1", "10.0.0.2"}

\* limiters of one token per 3 ticks with a burst of 2, two tokens per 3 ticks
\* with a burst of 1, and one token per tick with a burst of 3
Limiters ==
  {newRateLimiter(1, 2, 3), newRateLimiter(2, 1, 3), newRateLimiter(1, 3, 1)}

InitLimiter ==
  \E l \in Limiters :
    AdmAt(l, MainIdem, <<>>) /\ StoreAt(0)

\* the rate limiter called for two clients while time passes
NextLimiter ==
  \/ \E k \in ClientKeys : allow(k)
  \/ \E d \in {1, 2} : Advance(d)

SpecLimiter == InitLimiter /\ [][NextLimiter]_vars

\* requests of one client call the limiter concurrently while time passes
NextAllowConc ==
  \/ \E k \in {"10.0.0.1"} : GoAllow(k)
  \/ \E i \in 1..MaxGoroutines : Lock(i)
  \/ \E i \in 1..MaxGoroutines : allowRead(i)
  \/ \E i \in 1..MaxGoroutines : allowWrite(i)
  \/ \E d \in {3} : Advance(d)

SpecAllowConc == InitLimiter /\ [][NextAllowConc]_vars

\* Idempotency-Key headers: absent (empty) or one of two keys
IdemKeys == {"", "k1", "k2"}

\* an idempotency store whose ttl is 3 ticks
InitIdem == AdmAt(MainLimiter, newIdempotencyStore(3), <<>>) /\ StoreAt(0)

\* the idempotency store, called directly and through its middleware, while
\* time passes and the cleanup loop runs
NextIdem ==
  \/ \E k \in IdemKeys : seen(k)
  \/ \E k \in IdemKeys : idempotencyMiddleware(k)
  \/ cleanupLoop
  \/ \E d \in {1, 2} : Advance(d)

SpecIdem == InitIdem /\ [][NextIdem]_vars

\* requests with and without an Idempotency-Key call seen concurrently while
\* time passes
NextSeenConc ==
  \/ \E k \in {"", "k1"} : GoSeen(k)
  \/ \E i \in 1..MaxGoroutines : Lock(i)
  \/ \E i \in 1..MaxGoroutines : seenRead(i)
  \/ \E i \in 1..MaxGoroutines : seenWrite(i)
  \/ \E d \in {2} : Advance(d)

SpecSeenConc == InitIdem /\ [][NextSeenConc]_vars

\* requests with one Idempotency-Key call seen concurrently while time passes
\* and the cleanup loop sweeps on its ticks
NextSweepConc ==
  \/ \E k \in {"k1"} : GoSeen(k)
  \/ \E i \in 1..MaxGoroutines : Lock(i)
  \/ \E i \in 1..MaxGoroutines : seenRead(i)
  \/ \E i \in 1..MaxGoroutines : seenWrite(i)
  \/ TickerFires
  \/ cleanupLocked
  \/ \E d \in {2} : Advance(d)

SpecSweepConc == InitIdem /\ [][NextSweepConc]_vars

\* an idempotency store whose ttl is 2 ticks and its cleanup loop, started with
\* a context that is never cancelled or with one that can be
InitSweep ==
  /\ \E c \in {"background", "live"} : sweeper = StartCleanup(c, 2)
  /\ clock = 0
  /\ rl = MainLimiter
  /\ idem = newIdempotencyStore(2)
  /\ ret = [op |-> "init"]
  /\ viewers = NoViewers
  /\ obs = NoObs
  /\ cfg = [secret |-> <<>>]
  /\ mu = NoLocks
  /\ goroutines = <<>>
  /\ nonceCache = Empty
  /\ StoreAt(0)

\* keys are recorded while time passes, the ticker fires, the loop sweeps and
\* the context may be cancelled
NextSweep ==
  \/ \E k \in {"k1"} : seen(k)
  \/ \E d \in {1, 2} : Advance(d)
  \/ TickerFires
  \/ cleanupTick
  \/ CancelContext
  \/ cleanupReturn

\* the goroutine of the loop is scheduled: a case of its select that is ready
\* is eventually taken
FairSweep == WF_vars(cleanupTick) /\ WF_vars(cleanupReturn)

SpecSweep == InitSweep /\ [][NextSweep]_vars /\ FairSweep

Secret == <<"s","k">>
BodyObj == <<"{","}">>
BodyX == <<"x">>
AddrV4 == <<"1","0",".","0",".","0",".","1",":","5","0","0","0">>
AddrV6 == <<"[",":",":","1","]",":","5","0","0","0">>

\* what a client signs its body with
Sign(secret, body) == EncodeToString(Sum(secret, body))

\* signatures: none, the right one, the right one in upper case, the one of
\* another body, the one made with another secret
SigsFor(body) ==
  {<<>>, Sign(Secret, body), ToUpper(Sign(Secret, body)), Sign(Secret, <<"x","x">>),
   Sign(<<"t">>, body)}

Request(addr, key, sig, method, body) ==
  [remoteAddr |-> addr, key |-> key, sig |-> sig, method |-> method, body |-> body]

\* POSTs of {} under every signature, with an Idempotency-Key under the right
\* signature and under none, a GET, a body whose transfer breaks, and a body
\* that is not JSON from another client
Requests ==
  {Request(AddrV4, "", s, "POST", Stream(BodyObj, FALSE)) : s \in SigsFor(BodyObj)}
  \cup {Request(AddrV4, "k1", s, "POST", Stream(BodyObj, FALSE)) :
          s \in {<<>>, Sign(Secret, BodyObj)}}
  \cup {Request(AddrV4, "", Sign(Secret, BodyObj), "GET", Stream(BodyObj, FALSE)),
        Request(AddrV4, "", Sign(Secret, BodyObj), "POST", Stream(BodyObj, TRUE)),
        Request(AddrV6, "k1", Sign(Secret, BodyX), "POST", Stream(BodyX, FALSE))}

\* a server with a limiter of one token per 3 ticks and a burst of 1, an
\* idempotency ttl of 4 ticks, with and without WEBHOOK_SECRET
InitWebhook ==
  \E s \in {<<>>, Secret} :
    AdmAt(newRateLimiter(1, 1, 3), newIdempotencyStore(4), s) /\ StoreAt(0)

\* requests to /webhook while time passes
NextWebhook ==
  \/ \E r \in Requests, o \in {"none", "exec"} : Webhook(r, o)
  \/ cleanupLoop
  \/ \E d \in {3} : Advance(d)

SpecWebhook == InitWebhook /\ [][NextWebhook]_vars

NonceN == <<"n">>
NonceM == <<"m">>

\* a request to the signature check, signed as the client signs a request with
\* these headers
Signed(ts, nonce, secret, data) ==
  [ts |-> ts, nonce |-> nonce, body |-> Stream(data, FALSE),
   sig |-> Sign(secret, MacInput([ts |-> ts, nonce |-> nonce], data))]

\* signed requests with the nonce n and the timestamps 0, 5 and 9, with the
\* nonce m, with one of the two headers, with none, and with a timestamp that
\* does not parse; requests with a wrong signature, with none, and with a body
\* whose transfer breaks
SignedRequests ==
  {Signed(ts, NonceN, Secret, BodyObj) : ts \in {<<"0">>, <<"5">>, <<"9">>, <<"x">>}}
  \cup {Signed(<<"5">>, NonceM, Secret, BodyObj), Signed(<<>>, NonceN, Secret, BodyObj),
        Signed(<<"5">>, <<>>, Secret, BodyObj), Signed(<<>>, <<>>, Secret, BodyObj),
        Signed(<<"5">>, NonceN, <<"t">>, BodyObj),
        [Signed(<<"5">>, NonceN, Secret, BodyObj) EXCEPT !.sig = <<>>],
        [Signed(<<"5">>, NonceN, Secret, BodyObj) EXCEPT !.body = Stream(BodyObj, TRUE)]}

InitSecurity == AdmAt(MainLimiter, MainIdem, Secret) /\ StoreAt(0)

\* validateSignature called while minutes pass
NextSecurity ==
  \/ \E req \in SignedRequests : validateSignature(req)
  \/ \E d \in {1, 4} : Advance(d)

SpecSecurity == InitSecurity /\ [][NextSecurity]_vars

\* a process with and without WEBHOOK_SECRET
InitSharedSecret == \E s \in {<<>>, Secret} : AdmAt(MainLimiter, MainIdem, s) /\ StoreAt(0)

\* validateSharedSecret called for signed, wrongly signed and unsigned requests
NextSharedSecret ==
  \/ \E req \in SignedRequests : validateSharedSecret(req)
  \/ \E d \in {4} : Advance(d)

SpecSharedSecret == InitSharedSecret /\ [][NextSharedSecret]_vars

ViewerIds == {"v1"}

\* alerts are added, with and without a failing Publish, while a viewer comes
\* and goes: its earlier connection may still be open at the server when it
\* connects again
NextSSE ==
  \/ AddAlertIn({SrcChat42}, {LvlWarn}, {TitleCPU}, {MsgHigh}, {"none", "publish"})
  \/ \E v \in ViewerIds : SSEHandler(v)
  \/ \E i \in 1..MaxViewers : SSEHandshake(i)
  \/ \E i \in 1..MaxViewers : SSEWrite(i)
  \/ \E i \in 1..MaxViewers : Disconnect(i)
  \/ \E i \in 1..MaxViewers : SSEReturn(i)

SpecSSE == Init /\ [][NextSSE]_vars

\* the JSON values tried under a key: the empty string, the name of the key,
\* the numbers 0 and the length of the key, and null
ValuesFor(key) ==
  {Str(<<>>), Str(KeyText[key]), Num(0), Num(Len(KeyText[key])), Null}

\* the payloads whose keys are among K
PayloadsOver(K) ==
  UNION {{p \in [D -> UNION {ValuesFor(k) : k \in D}] :
            \A k \in D : p[k] \in ValuesFor(k)} : D \in SUBSET K}

\* payloads that exercise one fallback chain each
Payloads ==
  PayloadsOver({"source"})
  \cup PayloadsOver({"level", "severity", "status"})
  \cup PayloadsOver({"title", "alert_name", "event"})
  \cup PayloadsOver({"message", "description", "detail"})

\* the query parameter source: absent or given
SourceQueries == {NoQuery, <<"q">>}

\* a POST with a JSON object has arrived at WebhookHandler
InitFields ==
  /\ \E p \in Payloads, q \in SourceQueries :
       ret = [op |-> "request", payload |-> p, query |-> q]
  /\ clock = 0
  /\ rl = MainLimiter
  /\ idem = MainIdem
  /\ viewers = NoViewers
  /\ obs = NoObs
  /\ cfg = [secret |-> <<>>]
  /\ mu = NoLocks
  /\ goroutines = <<>>
  /\ nonceCache = Empty
  /\ sweeper = StartCleanup("background", MainIdem.ttl)
  /\ StoreAt(0)

NextFields == \E o \in AllOutcomes : WebhookHandler(o)

SpecFields == InitFields /\ [][NextFields]_vars

\* the registered bots: token -> name
Bots == (<<"T","1">> :> <<"a">>) @@ (<<"T","2">>  :> <<"b">>)

BotPath(token) == BotPrefix \o token \o SendMessage

BotObj(has, type, val, text) ==
  [kind |-> "object", has |-> has, type |-> type, val |-> val, text |-> text]

BotRequest(method, path, body) == [method |-> method, path |-> path, body |-> body]

\* messages for a registered bot, for an unknown token, for no token, to another
\* path of the bot, by GET, without chat_id, with a number as chat_id and with a
\* body that is no JSON
BotRequests ==
  {BotRequest("POST", BotPath(tok), BotObj(TRUE, "string", <<"4","2">>, MsgHigh)) :
     tok \in {<<"T","1">>, <<"T","2">>, <<"T","3">>, <<"t","1">>, <<>>,
              <<"T","1">> \o SendMessage}}
  \cup {BotRequest("POST", BotPrefix \o <<"T","1">> \o <<"/","g","e","t","M","e">>,
                   BotObj(TRUE, "string", <<"4","2">>, MsgHigh)),
        BotRequest("GET", BotPath(<<"T","1">>), BotObj(TRUE, "string", <<"4","2">>, MsgHigh)),
        BotRequest("POST", BotPath(<<"T","1">>), BotObj(FALSE, "null", <<>>, MsgHigh)),
        BotRequest("POST", BotPath(<<"T","1">>), BotObj(TRUE, "number", <<"4","2">>, MsgHigh)),
        BotRequest("POST", BotPath(<<"T","3">>), BotObj(TRUE, "number", <<"4","2">>, MsgHigh)),
        BotRequest("POST", BotPath(<<"T","1">>),
                   [kind |-> "malformed", has |-> FALSE, type |-> "null",
                    val |-> <<>>, text |-> <<>>])}

\* messages to the bot relay endpoint, every outcome of add, and listings
NextBot ==
  \/ \E r \in BotRequests, o \in AllOutcomes : BotWebhookHandler(Bots, r, o)
  \/ GetAlerts

SpecBot == Init /\ [][NextBot]_vars

\* unsigned POSTs to /webhook under every outcome of add, an Exec whose error
\* follows the writes included, and listings
NextFail ==
  \/ \E b \in {BodyObj, BodyX}, o \in AllOutcomes \cup {"lost"} :
       Webhook(Request(AddrV4, "", <<>>, "POST", Stream(b, FALSE)), o)
  \/ GetAlerts

SpecFail == Init /\ [][NextFail]_vars

\* the goroutine of a handler is scheduled: a write that is possible and a
\* return that is possible are eventually made. select picks among its ready
\* cases at random, so a return that stays possible is not put off for ever.
FairSSE ==
  \A i \in 1..MaxViewers :
    /\ WF_vars(SSEHandshake(i))
    /\ WF_vars(SSEWrite(i))
    /\ WF_vars(SSEReturn(i))

\* the same with fewer connections
NextSSELive ==
  \/ AddAlertIn({SrcChat42}, {LvlWarn}, {TitleCPU}, {MsgHigh}, {"none", "publish"})
  \/ \E v \in ViewerIds : Len(viewers) < MaxLiveViewers /\ SSEHandler(v)
  \/ \E i \in 1..MaxViewers : SSEHandshake(i)
  \/ \E i \in 1..MaxViewers : SSEWrite(i)
  \/ \E i \in 1..MaxViewers : Disconnect(i)
  \/ \E i \in 1..MaxViewers : SSEReturn(i)

SpecSSELive == Init /\ [][NextSSELive]_vars /\ FairSSE

-----------------------------------------------------------------------------
(* Claims *)

Returned == {c \in DOMAIN calls : calls[c].status = "ok"}

\* C1: no two add calls, however they interleave, ever return the same alert id.
C1_NoTwoAddsReturnTheSameId ==
  \A c, d \in Returned : c # d => calls[c].id # calls[d].id

\* C2: across any sequence of add, list, search and purgeAll, every id returned by
\* add is strictly greater than every id returned by an earlier add.
C2_ReturnedIdsStrictlyIncrease ==
  \A c, d \in Returned : c < d => calls[c].id < calls[d].id

\* the alerts for which add succeeded and which have neither reached their TTL
\* nor been covered by a purge
LiveAlerts ==
  {calls[c].alert :
     c \in {d \in Returned : /\ ~calls[d].purged
                             /\ now < calls[d].alert.CreatedAt + alertTTL}}

NoDuplicates(r) == \A i, j \in DOMAIN r : i # j => r[i] # r[j]

C4_ListNewestFirstTiesByDescendingId ==
  last.op = "list" =>
    \A i, j \in DOMAIN last.result :
      i < j =>
        \/ last.result[i].CreatedAt > last.result[j].CreatedAt
        \/ /\ last.result[i].CreatedAt = last.result[j].CreatedAt
           /\ last.result[i].ID > last.result[j].ID

EqualFold(x, y) == ToLower(x) = ToLower(y)

\* what the filters of a search ask of an alert
Satisfies(a, query, level, source) ==
  /\ level # <<>> => EqualFold(a.Level, level)
  /\ source # <<>> => EqualFold(a.Source, source)
  /\ query # <<>> =>
       Contains(ToLower(a.Title \o <<" ">> \o a.Message \o <<" ">> \o a.Source),
                ToLower(query))

SearchIsExact(result, query, level, source) ==
  /\ Range(result) = {a \in LiveAlerts : Satisfies(a, query, level, source)}
  /\ NoDuplicates(result)

\* C5: search(q, level, source) returns exactly the non-expired, non-purged alerts
\* that satisfy every given filter (level and source compared ignoring case, q
\* contained ignoring case in the title/message/source text); with both filters
\* given the result is the intersection.
C5_SearchReturnsExactlyTheMatches ==
  last.op = "search" =>
    SearchIsExact(last.result, last.query, last.level, last.source)

\* C5 witness: a search with both filters has returned an alert while another
\* live alert matches the level filter only.
C5_Witness ==
  /\ last.op = "search"
  /\ last.level # <<>> /\ last.source # <<>>
  /\ last.result # <<>>
  /\ \E a \in LiveAlerts :
       /\ EqualFold(a.Level, last.level)
       /\ ~EqualFold(a.Source, last.source)

Searches ==
  {<< <<>>, <<>>, <<>> >>, << <<>>, LvlWarn, <<>> >>, << <<>>, <<>>, SrcChat42 >>,
   << <<>>, LvlWarn, SrcChat7 >>, << <<"c","p","u">>, <<>>, <<>> >>}

\* C6: after purgeAll returns with nothing else running, no alert record, no
\* timeline member and no level or source index member remains, so list() and
\* every search return nothing until the next add.
C6_PurgeAllLeavesNothing ==
  clean =>
    /\ DOMAIN recs = {}
    /\ DOMAIN timeline = {}
    /\ DOMAIN levelIdx = {}
    /\ DOMAIN sourceIdx = {}
    /\ GetAlertsResult = <<>>
    /\ \A x \in Searches : SearchAlertsResult(x[1], x[2], x[3]) = <<>>
    /\ last.op \in {"list", "search"} => last.result = <<>>

\* C6 witness: purgeAll has just answered, and it removed an alert that list()
\* returned before it.
C6_Witness ==
  /\ clean
  /\ last.op = "purge" /\ last.scope = "all"
  /\ last.before # {}
  /\ last.removed = last.before

\* a purge request answered 200 after purgeByChat ran for the chat_id it carries
ChatPurgeAnswered ==
  /\ last.op = "purge"
  /\ last.status = 200
  /\ last.scope = "chat-specific"

Tagged(a, chatID) == Contains(a.Source, ChatTag(chatID))

\* C7: purgeByChat(tag) removes exactly the alerts whose source contains the
\* substring chat:{tag}, together with their timeline and index entries; every
\* other alert is still returned unchanged by list() and search afterwards.
C7_PurgeByChatRemovesExactlyTheTagged ==
  ChatPurgeAnswered =>
    LET tag == last.body.val
        kept == {a \in last.before : ~Tagged(a, tag)}
    IN /\ Range(GetAlertsResult) = kept
       /\ last.removed = last.before \ kept
       /\ \A a \in last.removed :
            /\ a.ID \notin DOMAIN recs
            /\ a.ID \notin DOMAIN timeline
            /\ a.ID \notin MembersOf(levelIdx) \cup MembersOf(sourceIdx)
       /\ \A a \in kept :
            /\ a \in Range(SearchAlertsResult(<<>>, a.Level, a.Source))
            /\ a \in Range(SearchAlertsResult(a.Title, <<>>, <<>>))

\* C7 witness: purgeByChat has removed one alert and left another, of another
\* chat, in place.
C7_Witness ==
  /\ ChatPurgeAnswered
  /\ last.removed # {}
  /\ last.removed # last.before

\* the request asks for one chat: its body carries a non-empty chat_id
CarriesChatId(body) == body.has /\ body.val # <<>>

\* C8: the purge endpoint performs a chat-specific purge, and only that, when the
\* body carries a non-empty chat_id, and purges everything only when chat_id is
\* absent or empty; a request meant for one chat never deletes alerts of other
\* chats, and the response scope names the purge that was performed.
C8_PurgeScopeFollowsTheRequest ==
  (last.op = "purge" /\ last.status = 200) =>
    IF CarriesChatId(last.body)
    THEN /\ last.scope = "chat-specific"
         /\ \A a \in last.removed : Tagged(a, last.body.val)
    ELSE /\ last.scope = "all"
         /\ last.removed = last.before

\* C9: an alert's event is published only after its record, timeline entry and
\* index entries have been written: once the event for id X is on the channel, a
\* list() started then or later returns X, unless X has since expired or been
\* purged.
C9_PublishedAlertIsListed ==
  \A i \in DOMAIN events :
    ~calls[events[i].call].gone =>
      \E j \in DOMAIN GetAlertsResult : GetAlertsResult[j].ID = events[i].data.ID

EventsOf(c) == {i \in DOMAIN events : events[i].call = c}

C12_TokensWithinZeroAndBurst ==
  \A k \in DOMAIN rl.tokens :
    /\ rl.tokens[k].tokens >= 0
    /\ rl.tokens[k].tokens <= Capacity

\* C12 witness: an allow call found more refill than the bucket can hold and
\* clamped it, while another bucket is empty.
C12_Witness ==
  /\ ret.op = "allow" /\ ret.known
  /\ ret.before.tokens + rl.rate * (ret.at - ret.before.last) > Capacity
  /\ \E k \in DOMAIN rl.tokens : rl.tokens[k].tokens = 0

\* C13: for a key never seen before, burst allow calls made with no time elapsing
\* are all admitted, and after them a call for that key is admitted only once the
\* time needed to refill one whole token (refill/rate) has elapsed since the last
\* admitted call, however many rejected calls are made in between.
C13_BurstAdmittedThenRejectedUntilRefill ==
  ret.op = "allow" =>
    /\ (ret.was.calls < rl.burst /\ (ret.was.calls = 0 \/ ret.at = ret.was.first))
         => ret.ok
    /\ (ret.ok /\ ret.was.admits = rl.burst /\ ret.was.lastAdmit = ret.was.first)
         => rl.rate * (ret.at - ret.was.lastAdmit) >= rl.refill

\* C14: an allow call that is rejected leaves the bucket unchanged, its token
\* count and its last-refill timestamp alike.
C14_RejectedAllowLeavesBucketUnchanged ==
  (ret.op = "allow" /\ ~ret.ok) => ret.after = ret.before

\* C15: for every non-empty key the first seen(key) returns false, every
\* seen(key) made strictly before first-sighting time + ttl returns true, and the
\* first seen(key) made at or after that time returns false and starts a new
\* window.
C15_SeenIsTrueExactlyInsideTheWindow ==
  (ret.op = "seen" /\ ret.key # "") =>
    /\ ret.result = (ret.sighted /\ ret.at < ret.start + idem.ttl)
    /\ ~ret.result => ret.after[ret.key] = ret.at + idem.ttl

\* C15 witness: a key sighted before is seen again at the very instant its window
\* ends, and a new window starts.
C15_Witness ==
  /\ ret.op = "seen" /\ ret.key # ""
  /\ ret.sighted /\ ret.at = ret.start + idem.ttl
  /\ ~ret.result

\* C16: seen("") always returns false and never adds, removes or changes an
\* entry of the idempotency table; a request without an Idempotency-Key header
\* is never rejected as a duplicate.
C16_EmptyKeyIsNeverSeen ==
  /\ (ret.op = "seen" /\ ret.key = "") => (~ret.result /\ ret.after = ret.before)
  /\ (ret.op = "idempotency" /\ ret.key = "") => ret.status # 409
  /\ "" \notin DOMAIN idem.items

\* C16 witness: seen("") has been called on a table that holds entries.
C16_Witness ==
  /\ ret.op = "seen" /\ ret.key = ""
  /\ ret.before # Empty

\* C17: a seen(key) call that returns true does not change the stored expiry of
\* the key: the window ends ttl after the sighting that returned false.
C17_DuplicateDoesNotExtendTheWindow ==
  (ret.op = "seen" /\ ret.result) =>
    /\ ret.after = ret.before
    /\ ret.after[ret.key] = ret.start + idem.ttl

\* C17 witness: a duplicate has arrived later than the sighting that opened its
\* window.
C17_Witness ==
  /\ ret.op = "seen" /\ ret.result
  /\ ret.at > ret.start

\* the last exchange on the ingestion endpoint passed all three stages
Passed == ~ret.limited /\ ~ret.dup /\ ret.sig = 0

\* the store, the channel and the call history are as before the last exchange
NothingStored == ret.storeBefore = <<storeVars, Len(events), Len(calls)>>

\* C11: on the ingestion endpoint the stages run in the order rate limiter,
\* idempotency filter, signature validator, and the handler runs only for a
\* request that passed all three: a request rejected at a stage gets that
\* stage's status, is not seen by a later stage, changes no later stage's state,
\* and never stores or publishes an alert.
C11_AdmissionStagesRunInOrder ==
  ret.op = "webhook" =>
    /\ ret.handler = Passed
    /\ ret.limited => (ret.status = 429 /\ ret.ran = {"rateLimit"})
    /\ (~ret.limited /\ ret.dup)
         => (ret.status = 409 /\ ret.ran = {"rateLimit", "idempotency"})
    /\ (~ret.limited /\ ~ret.dup /\ ret.sig # 0) => ret.status = ret.sig
    /\ ret.limited => ret.idemAfter = ret.idemBefore
    /\ ~Passed => NothingStored

\* C11 witness: the limiter has rejected a request whose Idempotency-Key the
\* filter had not yet seen and whose signature is right.
C11_Witness ==
  /\ ret.op = "webhook" /\ ret.status = 429
  /\ ret.req.key # "" /\ ret.req.key \notin DOMAIN ret.idemBefore
  /\ ret.req.sig = Sign(cfg.secret, ret.req.body.data)

\* the last exchange reached the signature check of a server that has a secret
SigChecked ==
  /\ ret.op = "webhook" /\ ~ret.limited /\ ~ret.dup
  /\ cfg.secret # <<>>
  /\ ~ret.req.body.err

\* C18: with a non-empty secret the signature check accepts a request if and
\* only if the signature equals hex(HMAC-SHA256(raw body, secret)), and rejects
\* it with 401 otherwise; with an empty secret every request is accepted.
C18_SignatureAcceptedIffHexMac ==
  /\ SigChecked =>
       /\ (ret.sig = 0) = (ret.req.sig = Sign(cfg.secret, ret.req.body.data))
       /\ ret.sig # 0 => ret.status = 401
  /\ (ret.op = "webhook" /\ cfg.secret = <<>>) => ret.sig = 0

\* C18 witness: a signature that differs from the right one only in the case of
\* its hex digits has been rejected.
C18_Witness ==
  /\ SigChecked
  /\ ret.status = 401
  /\ ret.req.sig = ToUpper(Sign(cfg.secret, ret.req.body.data))

\* C19: when the signature check passes, the next stage reads exactly the bytes
\* the client sent, from the first byte.
C19_HandlerReadsTheBodySent ==
  (SigChecked /\ ret.sig = 0 /\ ret.req.method = "POST")
    => ret.read = ret.req.body.data

\* C19 witness: a signed body has passed the check and the handler has stored
\* the alert decoded from it.
C19_Witness ==
  /\ SigChecked /\ ret.status = 200
  /\ ret.read # <<>>
  /\ ~NothingStored

\* connection i received event e although e was published before the
\* connection subscribed or after its client left
GotOutsideSubscription(i, e) ==
  \/ e <= viewers[i].from
  \/ viewers[i].disc >= 0 /\ e > viewers[i].disc

\* C20: a viewer receives only events published while its subscription is
\* open: an event published before the viewer subscribed, or after it
\* disconnected, is never written to that viewer, also after it reconnects.
C20_ViewerGetsOnlyEventsOfItsSubscription ==
  \A i \in DOMAIN viewers :
    \A k \in DOMAIN viewers[i].got :
      /\ viewers[i].got[k] \in DOMAIN events
      /\ ~GotOutsideSubscription(i, viewers[i].got[k])
      /\ \A j \in DOMAIN viewers :
           (j > i /\ viewers[j].viewer = viewers[i].viewer)
             => \A n \in DOMAIN viewers[j].got : viewers[j].got[n] > viewers[i].disc

\* C20 witness: a viewer that had left while an event was published has
\* connected again and received a later event, and not the one it missed.
C20_Witness ==
  \E i, j \in DOMAIN viewers :
    /\ i < j /\ viewers[i].viewer = viewers[j].viewer
    /\ viewers[j].from > viewers[i].disc
    /\ viewers[j].got # <<>>

\* frame is the frame of the initial connection message
IsHandshake(frame) == frame.msg = HandshakeFrame.msg

\* C21: on every streaming connection the subscription is opened first, the
\* first frame written is the handshake, and every later frame is one bus
\* message, written in the order the messages were received, each at most once.
C21_HandshakeThenMessagesInOrder ==
  \A i \in DOMAIN viewers :
    LET s == viewers[i]
    IN /\ s.pc = "handshake" => s.wrote = <<>>
       /\ s.pc # "handshake" => (s.wrote # <<>> /\ IsHandshake(s.wrote[1]))
       /\ \A k \in 2..Len(s.wrote) :
            /\ s.wrote[k].msg \in DOMAIN events
            /\ s.wrote[k].msg = s.from + (k - 1)
            /\ s.wrote[k].data = events[s.wrote[k].msg].data

\* C21 witness: a connection has written the handshake and two messages after it.
C21_Witness ==
  \E i \in DOMAIN viewers :
    /\ Len(viewers[i].wrote) = 3
    /\ viewers[i].wrote[2].msg < viewers[i].wrote[3].msg

\* connection i was subscribed when AddAlert call c returned its alert
AcceptedWhileOpen(i, c) ==
  /\ i \in DOMAIN viewers
  /\ c \in DOMAIN calls
  /\ calls[c].status = "ok"
  /\ c > viewers[i].adds

\* the client of connection i has the alert of call c, or has left
ReceivedOrLeft(i, c) ==
  /\ i \in DOMAIN viewers
  /\ \/ viewers[i].disc >= 0
     \/ \E k \in DOMAIN viewers[i].got : events[viewers[i].got[k]].call = c

C23_DisconnectEndsLoopAndClosesSubscription ==
  /\ [](\A i \in DOMAIN viewers : viewers[i].pc = "done" => viewers[i].closed >= 0)
  /\ \A i \in 1..MaxViewers :
       (i \in DOMAIN viewers /\ viewers[i].disc >= 0)
         ~> (i \in DOMAIN viewers /\ viewers[i].pc = "done"
               /\ viewers[i].closed >= 0)

\* C23 witness: a handler has returned and closed its subscription after an
\* event was published to it behind the back of the client that had left.
C23_Witness ==
  \E i \in DOMAIN viewers :
    /\ viewers[i].pc = "done"
    /\ viewers[i].closed > viewers[i].disc
    /\ viewers[i].disc >= 0

\* the first entry of candidates that is not the empty string
RECURSIVE FirstNonEmpty(_)
FirstNonEmpty(candidates) ==
  IF Len(candidates) = 1 \/ Head(candidates) # <<>> THEN Head(candidates)
  ELSE FirstNonEmpty(Tail(candidates))

\* the texts of the payload's fields keys, in that order
Candidates(payload, keys) ==
  [i \in 1..Len(keys) |-> getString(Field(payload, keys[i]))]

\* the alert the handler stored for the request drawn
HandledAlert == calls[ret.call].alert

\* C24: for every parsed payload the ingestion handler sets each alert field to
\* the first non-empty candidate in its fallback order: source = body field
\* source, else query parameter, else "unknown"; level = level, severity,
\* status, else "info"; title = title, alert_name, event, else "Alert";
\* message = message, description, detail, else the indented JSON of the payload.
C24_FieldsFollowTheFallbackOrder ==
  (ret.op = "handler" /\ ret.status = 200) =>
    /\ HandledAlert.Source
         = FirstNonEmpty(Candidates(ret.payload, <<"source">>)
                         \o <<ret.query, DefaultSource>>)
    /\ HandledAlert.Level
         = FirstNonEmpty(Candidates(ret.payload, <<"level", "severity", "status">>)
                         \o <<DefaultLevel>>)
    /\ HandledAlert.Title
         = FirstNonEmpty(Candidates(ret.payload, <<"title", "alert_name", "event">>)
                         \o <<DefaultTitle>>)
    /\ HandledAlert.Message
         = FirstNonEmpty(Candidates(ret.payload, <<"message", "description", "detail">>)
                         \o <<MarshalIndent(ret.payload)>>)

\* C24 witness: an alert has been stored whose level is that of status, the
\* third candidate, while level is absent and severity is the empty string and
\* so is the second candidate of the message, which is the payload as JSON.
C24_Witness ==
  /\ ret.op = "handler" /\ ret.status = 200
  /\ DOMAIN ret.payload = {"severity", "status"}
  /\ ret.payload["severity"] = Str(<<>>)
  /\ HandledAlert.Level = KeyText["status"]
  /\ HandledAlert.Message =
       <<"{","\n"," "," ","\"","s","e","v","e","r","i","t","y","\"",":"," ","\"","\"",",",
         "\n"," "," ","\"","s","t","a","t","u","s","\"",":"," ","\"","s","t","a","t","u","s","\"",
         "\n","}">>

\* the token in the path of the last request to the bot relay endpoint
PathToken == TrimSuffix(TrimPrefix(ret.req.path, BotPrefix), SendMessage)

\* the last request to the bot relay endpoint stored or published something, or
\* at least called the store
BotTouchedStore == ret.storeBefore # <<storeVars, Len(events), Len(calls)>>

WebhookCall == ret.storeBefore[3] + 1

\* C26: when add fails in the backing store (counter increment or batched
\* write returns an error), the ingestion request is answered 500, no event is
\* published for it, the operation is not retried, and no later list() returns
\* an alert for that request.
C26_FailedAddLeavesNoAlert ==
  /\ (ret.op = "webhook" /\ ret.handler /\ calls[WebhookCall].status = "error") =>
       /\ ret.status = 500
       /\ Len(events) = ret.storeBefore[2]
       /\ Len(calls) = WebhookCall
  /\ last.op = "list" =>
       \A c \in DOMAIN calls :
         (calls[c].status = "error" /\ calls[c].id # 0)
           => \A k \in DOMAIN last.result : last.result[k].ID # calls[c].id

\* C27: the idempotency sweep loop keeps running on every tick while its owning
\* context is not cancelled, and terminates once that context is cancelled.
C27_SweepRunsUntilItsContextIsCancelled ==
  /\ [](sweeper.pc = "done" => sweeper.ctx = "cancelled")
  /\ sweeper.tick ~> (~sweeper.tick \/ sweeper.ctx = "cancelled")
  /\ (sweeper.ctx = "cancelled") ~> (sweeper.pc = "done")

\* C27 witness: the loop has swept an expired key on a tick and has returned
\* after its context was cancelled.
C27_Witness ==
  /\ sweeper.pc = "done"
  /\ sweeper.swept >= 0
  /\ \E k \in DOMAIN obs.seen : k \notin DOMAIN idem.items

\* no add, purge or list is in flight
Quiet ==
  /\ \A t \in DOMAIN pc : pc[t].at = "idle"
  /\ purge.at = "idle"
  /\ lister.at = "idle"

\* the record of id is in the timeline and in the index sets of its level and
\* its source
Indexed(id) ==
  /\ id \in DOMAIN timeline
  /\ id \in SMembers(levelIdx, ToLower(recs[id].alert.Level))
  /\ id \in SMembers(sourceIdx, ToLower(recs[id].alert.Source))

\* C28: if add calls run concurrently with purgeAll, then once all of them have
\* returned the store is consistent: every alert record that still exists is a
\* member of the timeline and of its level and source index sets, and every
\* timeline or index member refers to an existing record.
C28_StoreConsistentAfterConcurrentPurge ==
  (Quiet /\ purge.runs > 0) =>
    /\ \A id \in DOMAIN recs : Indexed(id)
    /\ DOMAIN timeline \subseteq DOMAIN recs
    /\ MembersOf(levelIdx) \subseteq DOMAIN recs
    /\ MembersOf(sourceIdx) \subseteq DOMAIN recs

\* the record stored under id is the alert that a call of add has returned and
\* that neither a purge nor the TTL has removed since
ReturnedRecord(id) ==
  \E c \in DOMAIN calls :
    /\ calls[c].status = "ok" /\ ~calls[c].gone
    /\ calls[c].id = id
    /\ calls[c].alert = recs[id].alert

\* C29: from the moment add returns an alert with id X until that alert is
\* removed by expiry or purge, the record stored under id X never changes, under
\* any interleaving of add and purgeAll.
C29_ReturnedRecordNeverChanges ==
  [][\A id \in DOMAIN recs \cap DOMAIN recs' :
       ReturnedRecord(id) => recs'[id].alert = recs[id].alert]_vars

\* C30: for one client key, in any time interval of length T the number of allow
\* calls that are admitted is at most burst + rate*T/refillPeriod, whatever the
\* number and timing of the admitted and rejected calls in that interval. The
\* intervals looked at are those from the first call of a key to its latest
\* admitted call; both sides are multiplied by the refill period.
C30_AdmittedCallsBoundedByBurstAndRate ==
  \A key \in DOMAIN obs.allow :
    AllowsOf(key).admits * rl.refill
      <= rl.burst * rl.refill
           + rl.rate * (AllowsOf(key).lastAdmit - AllowsOf(key).first)

\* the calls of op made for key
CallsOf(op, key) ==
  {i \in DOMAIN goroutines : goroutines[i].op = op /\ goroutines[i].key = key}

\* the calls in G have all returned, and all read the same time
AllAtOnce(G) ==
  /\ \A i \in G : goroutines[i].pc = "done"
  /\ \A i, j \in G : goroutines[i].now = goroutines[j].now

Admitted(G) == {i \in G : goroutines[i].result}

\* C31: concurrent allow calls behave as if executed one at a time in some
\* order: for N calls on one previously unseen key issued concurrently with no
\* time elapsing, exactly min(N, burst) are admitted, and no token is deducted
\* twice or lost.
C31_ConcurrentAllowAdmitsMinOfCallsAndBurst ==
  \A key \in ClientKeys :
    (CallsOf("allow", key) # {} /\ AllAtOnce(CallsOf("allow", key))) =>
      /\ Cardinality(Admitted(CallsOf("allow", key)))
           = minFloat(Cardinality(CallsOf("allow", key)), rl.burst)
      /\ rl.tokens[key].tokens
           = Capacity - Cardinality(Admitted(CallsOf("allow", key))) * OneToken

\* C31 witness: three calls for one key, made while another was in flight, have
\* returned at the same time, and one of them was rejected.
C31_Witness ==
  \E key \in ClientKeys :
    /\ Cardinality(CallsOf("allow", key)) = 3
    /\ AllAtOnce(CallsOf("allow", key))
    /\ \E i \in CallsOf("allow", key) : goroutines[i].overlap = 2
    /\ \E i \in CallsOf("allow", key) : ~goroutines[i].result

\* the calls in G have all returned, and any two of them read times less than
\* the ttl apart
AllInOneWindow(G) ==
  /\ \A i \in G : goroutines[i].pc = "done"
  /\ \A i, j \in G : goroutines[i].now - goroutines[j].now < idem.ttl

\* the calls of G that returned false, whose requests the middleware lets pass
FirstSightings(G) == {i \in G : ~goroutines[i].result}

Unswept == [k \in DOMAIN obs.seen \ {""} |-> obs.seen[k] + idem.ttl]

\* for calls of seen that run one at a time, with sweeps between them: the
\* table holds what the unswept table holds, except for entries that expired,
\* and seen returns what the unswept table gives
SweepInvisibleToWholeCalls ==
  /\ \A k \in DOMAIN idem.items :
       k \in DOMAIN Unswept /\ idem.items[k] = Unswept[k]
  /\ \A k \in DOMAIN Unswept :
       Unswept[k] > clock => k \in DOMAIN idem.items
  /\ ret.op = "seen" =>
       ret.result = (ret.key # "" /\ ret.sighted /\ ret.start + idem.ttl > ret.at)

\* C33: the background sweep is invisible to callers: it removes only entries
\* whose expiry has passed, never an entry whose expiry is in the future, so for
\* every sequence of seen calls and every interleaving of sweeps the results of
\* seen are the same as if no sweep ever ran.
C33_SweepIsInvisibleToSeen ==
  \A i \in DOMAIN goroutines :
    (goroutines[i].op = "seen" /\ goroutines[i].pc \in {"write", "done"})
      => goroutines[i].result = goroutines[i].ref

\* the last exchange on the ingestion endpoint recorded its Idempotency-Key: it
\* carried one and was the first sighting of its window
OpenedWindow ==
  /\ ret.op = "webhook"
  /\ ret.req.key # ""
  /\ ~ret.limited /\ ~ret.dup

\* C34: a request to the ingestion endpoint is answered 409 (duplicate) only if
\* an earlier request carrying the same Idempotency-Key within the TTL window
\* was accepted and stored an alert; an earlier request with that key that was
\* rejected with 401 or failed with 500 does not cause a later one to be
\* answered 409. Stated for the request that opened the window and the request
\* that follows it.
C34_DuplicateOnlyAfterAnAcceptedRequest ==
  [][(/\ OpenedWindow
      /\ obs'.n = obs.n + 1
      /\ ret'.op = "webhook" /\ ret'.status = 409
      /\ ret'.req.key = ret.req.key)
       => (ret.status = 200 /\ ret.storeBefore # ret'.storeBefore)]_vars

\* C35: every level-index and source-index entry expires at the same time as
\* the alert it indexes: in every reachable state, an alert key is a member of a
\* level or source index set only while its record exists.
C35_IndexMembersHaveRecords ==
  /\ MembersOf(levelIdx) \subseteq DOMAIN recs
  /\ MembersOf(sourceIdx) \subseteq DOMAIN recs

\* the timestamp parses and is less than maxSkew away from the time at
StrictlyWithin(ts, at) ==
  /\ ParseTime(ts).ok
  /\ ParseTime(ts).t - at < maxSkew
  /\ at - ParseTime(ts).t < maxSkew

\* table holds a time for the nonce that is less than maxSkew before at
WithinBefore(table, nonce, at) ==
  /\ nonce \in DOMAIN table
  /\ at - table[nonce] < maxSkew

\* the last request to validateSignature carries the signature its headers and
\* body call for, and its body can be read
CorrectlySigned ==
  /\ ~ret.req.body.err
  /\ ret.req.sig = Sign(cfg.secret, MacInput(ret.req, ret.req.body.data))

\* C36 as stated, with the table of the nonces given: the check rejects a
\* request with both headers whose timestamp is not strictly within the window
\* or whose nonce the table holds, and accepts it when it is correctly signed,
\* in the window and its nonce is fresh
BoundSignatureChecked(table) ==
  (ret.op = "validateSignature" /\ Bound(ret.req)) =>
    /\ (\/ ~StrictlyWithin(ret.req.ts, ret.at)
        \/ WithinBefore(table, ret.req.nonce, ret.at)) => ~ret.ok
    /\ (/\ CorrectlySigned
        /\ StrictlyWithin(ret.req.ts, ret.at)
        /\ ~WithinBefore(table, ret.req.nonce, ret.at)) => ret.ok

\* C36: when a request carries both a timestamp and a nonce header,
\* validateSignature rejects it if the timestamp is not strictly within 5
\* minutes of the current time, or if the same nonce was presented by an earlier
\* request less than 5 minutes before, even when its signature is correct; a
\* correctly signed request with a fresh nonce and an in-window timestamp is
\* accepted.
C36_RejectsStaleTimestampAndPresentedNonce == BoundSignatureChecked(ret.presented)

\* C36, amended: the nonce counts as used only from the time it was entered
\* into the replay cache, which an earlier request does when it has a signature,
\* a readable body, both headers and a timestamp in the window, and the nonce
\* was not entered less than 5 minutes before.
C36_RejectsStaleTimestampAndEnteredNonce == BoundSignatureChecked(ret.entered)

\* C36 witness: a correctly signed request with a timestamp in the window has
\* been rejected because its nonce was entered less than 5 minutes before, at
\* another time than the request is made.
C36_Witness ==
  /\ ret.op = "validateSignature" /\ Bound(ret.req)
  /\ CorrectlySigned
  /\ StrictlyWithin(ret.req.ts, ret.at)
  /\ WithinBefore(ret.entered, ret.req.nonce, ret.at)
  /\ ret.entered[ret.req.nonce] < ret.at
  /\ ~ret.ok

(***************************************************************************)
(* The decoding fallbacks of WebhookHandler (internal/handlers). A request *)
(* carries its body as a stream, whether its Content-Type is               *)
(* application/x-www-form-urlencoded, and its raw query string. Bodies are *)
(* shorter than the first read of the JSON decoder (512 bytes), so the     *)
(* decoder has taken the whole body from the stream when it returns.       *)
(* Form texts hold the names the handler reads and no escapes.             *)
(***************************************************************************)

\* strings.Cut(text, sep): the part before the first sep and the part after it
CutAt(text, sep) ==
  IF \E i \in 1..Len(text) : text[i] = sep
  THEN LET i == CHOOSE j \in 1..Len(text) :
                  text[j] = sep /\ \A h \in 1..(j - 1) : text[h] # sep
       IN [before |-> SubSeq(text, 1, i - 1),
           after |-> SubSeq(text, i + 1, Len(text)), found |-> TRUE]
  ELSE [before |-> text, after |-> <<>>, found |-> FALSE]

\* the pairs of a query text, in order: name=value separated by &
RECURSIVE QueryPairs(_)
QueryPairs(text) ==
  IF text = <<>> THEN <<>>
  ELSE LET c == CutAt(text, "&")
           pair == CutAt(c.before, "=")
       IN (IF c.before = <<>> THEN <<>>
           ELSE <<[name |-> pair.before, value |-> pair.after]>>)
          \o QueryPairs(c.after)

\* url.ParseQuery and Values.Get: the first value given under each name
ParseQuery(text) ==
  LET pairs == QueryPairs(text)
      First(k) == CHOOSE i \in 1..Len(pairs) :
                    /\ pairs[i].name = KeyText[k]
                    /\ \A h \in 1..(i - 1) : pairs[h].name # KeyText[k]
  IN [k \in {k \in DOMAIN KeyText : \E i \in 1..Len(pairs) : pairs[i].name = KeyText[k]}
        |-> Str(pairs[First(k)].value)]

\* r.Form after ParseForm: the values of the body before those of the URL
FormValues(post, query) ==
  [k \in DOMAIN post \cup DOMAIN query |->
     IF k \in DOMAIN post THEN post[k] ELSE query[k]]

\* a form parser that is handed the body as the client sent it
PostFormOfSent(req, body) ==
  IF req.form /\ ~req.body.err THEN ParseQuery(req.body.data) ELSE NoFields

\* parsePostForm: the form fields in what is left of the body stream
PostFormOf(req, body) ==
  IF req.form /\ ~body.err THEN ParseQuery(ReadAll(body).bytes) ELSE NoFields

\* WebhookHandler's decoding: JSON first, then r.ParseForm() on the stream the
\* decoder has read from, then the placeholder
DecodeRequest(req) ==
  LET read == ReadAll(req.body)
      form == FormValues(PostFormOf(req, Drained(req.body)), ParseQuery(req.query))
  IN IF ~read.err /\ read.bytes = <<"{","}">> THEN NoFields
     ELSE IF ~(req.form /\ req.body.err) /\ DOMAIN form # {} THEN form
     ELSE RawPayload

\* r.URL.Query().Get("source")
QuerySource(req) == getString(Field(ParseQuery(req.query), "source"))

\* WebhookHandler for a POST: decoding, the fields, AddAlert, the answer
WebhookForm(req, outcome) ==
  LET payload == DecodeRequest(req)
  IN /\ AddAlert(SourceOf(payload, QuerySource(req)), LevelOf(payload),
                 TitleOf(payload), MessageOf(payload), outcome)
     /\ ret' = [op |-> "form", req |-> req, payload |-> payload,
                call |-> Len(calls) + 1,
                status |-> IF AddFails(outcome) THEN 500 ELSE 200]
     /\ UNCHANGED <<clock, rl, idem, viewers, obs, cfg, sweeper, mu, goroutines,
                    nonceCache>>

FormRequest(data, form, query) ==
  [body |-> Stream(data, FALSE), form |-> form, query |-> query]

FormSource == <<"s","o","u","r","c","e","=","x">>
FormLevelTitle ==
  <<"l","e","v","e","l","=","w","a","r","n","&","t","i","t","l","e","=","t","&",
    "l","e","v","e","l","=","e","r","r","o","r">>
QueryOfSource == <<"s","o","u","r","c","e","=","q">>

\* JSON, form and empty bodies, sent as a form or not, with and without a
\* source in the URL; and a form body whose stream fails
FormRequests ==
  {FormRequest(d, f, q) : d \in {BodyObj, FormSource, FormLevelTitle, <<>>},
                          f \in BOOLEAN, q \in {<<>>, QueryOfSource}}
  \cup {[FormRequest(FormSource, TRUE, <<>>) EXCEPT !.body = Stream(FormSource, TRUE)]}

NextForm == \E req \in FormRequests, o \in AllOutcomes : WebhookForm(req, o)

SpecForm == Init /\ [][NextForm]_vars

\* a body that is no JSON and holds form fields
FormEncoded(req) ==
  /\ req.form
  /\ ~req.body.err
  /\ req.body.data # <<"{","}">>
  /\ DOMAIN ParseQuery(req.body.data) # {}

\* the alert an accepted form request stored
FormAlert == calls[ret.call].alert

\* C37: a request whose body is not JSON but form-encoded is accepted and
\* stores one alert whose source, level, title and message are taken from the
\* form fields of the body by the fallback order of the JSON case; the raw
\* placeholder is the payload only when the body is neither JSON nor holds
\* form fields.
C37_FormBodyFieldsAreUsed ==
  (ret.op = "form" /\ ret.status = 200) =>
    LET fields == ParseQuery(ret.req.body.data)
    IN /\ FormEncoded(ret.req) =>
            /\ FormAlert.Source = SourceOf(fields, QuerySource(ret.req))
            /\ FormAlert.Level = LevelOf(fields)
            /\ FormAlert.Title = TitleOf(fields)
       /\ ret.payload = RawPayload => ~FormEncoded(ret.req)

\* every request that reaches the decoding is answered 200 when the store
\* took the alert, and one alert is stored for it
FormAcceptedStoresOne ==
  ret.op = "form" =>
    /\ ret.status = 200 <=> calls[ret.call].status = "ok"
    /\ ret.status = 200 => FormAlert.ID \in DOMAIN recs /\ recs[FormAlert.ID].alert = FormAlert

\* C38: validateSharedSecret returns true only if WEBHOOK_SECRET is empty or
\* the request's signature is the hex HMAC-SHA256 of its body under the
\* secret; with a secret, a missing or wrong signature makes it return false.
C38_SharedSecretRejectsBadSignature ==
  ret.op = "validateSharedSecret" =>
    /\ ret.ok => (cfg.secret = <<>> \/ ret.req.sig = Sign(cfg.secret, ret.req.body.data))
    /\ (cfg.secret # <<>> /\ ret.req.sig # Sign(cfg.secret, ret.req.body.data)) => ~ret.ok

(***************************************************************************)
(* ClearAlerts and the /clear endpoint                                     *)
(***************************************************************************)

\* the key "alerts"
AlertsKey == [ns |-> "alerts", name |-> "", id |-> 0, s |-> <<>>]

\* the keys under which AddAlert keeps the alerts and their order
ClearKeysOfAddAlert == ScanAlertKeys \cup {TimelineKey}

\* the keys ClearAlerts deletes
ClearKeys == {AlertsKey}

\* RedisStore.ClearAlerts: DEL alerts. fails: the command returns an error
ClearAlerts(fails) ==
  IF fails THEN UNCHANGED storeVars
  ELSE /\ nextId' = DelNextId(ClearKeys)
       /\ recs' = DelRecs(ClearKeys)
       /\ timeline' = DelTimeline(ClearKeys)
       /\ levelIdx' = DelLevelIdx(ClearKeys)
       /\ sourceIdx' = DelSourceIdx(ClearKeys)

\* handlers.ClearHandler: the error of ClearAlerts is dropped, the answer is the
\* redirect to /
ClearHandler(method, fails) ==
  /\ UNCHANGED admVars
  /\ IF method # "POST"
     THEN /\ last' = [op |-> "clear", method |-> method, status |-> 405, ok |-> FALSE]
          /\ UNCHANGED storeVars
     ELSE /\ ClearAlerts(fails)
          /\ last' = [op |-> "clear", method |-> method, status |-> 303, ok |-> ~fails]
  /\ UNCHANGED <<now, events, calls, pc, purge, lister, clean>>

\* alerts are added, listed and cleared
NextClear ==
  \/ AddAlertIn({SrcChat42, SrcChat7}, {LvlWarn}, {TitleCPU}, {MsgHigh}, {"none"})
  \/ GetAlerts
  \/ \E m \in {"POST", "GET"}, f \in BOOLEAN : ClearHandler(m, f)
  \/ TickIn({alertTTL})

SpecClear == Init /\ [][NextClear]_vars

\* the alerts added so far
AddedAlerts == {calls[c].alert : c \in {c \in 1..Len(calls) : calls[c].status = "ok"}}

\* C39: after ClearAlerts has returned without an error, GetAlerts returns none
\* of the alerts that were added before it.
C39_ClearedAlertsAreNotListed ==
  [][(last.op = "clear" /\ last.ok /\ last'.op = "list") =>
       Range(last'.result) \cap AddedAlerts = {}]_vars

====
